---- MODULE Spec2Model ----
(***************************************************************************)
(* Model of the svg-anim-demo runtime: the layer state store               *)
(* (runtime/state_store.py), the reconciliation engine                     *)
(* (runtime/reconcile.py), the run tracker (runtime/engine.py) and the     *)
(* runtime service that drives them (api/runtime_service.py), the tool     *)
(* dispatch (api/tools.py) and the layer compiler                          *)
(* (compiler/layer_compiler.py).                                           *)
(*                                                                         *)
(* Numbers.  Python floats are modelled as exact rationals <<n, d>> in     *)
(* lowest terms with d > 0.  Every input of the model is an integer or a   *)
(* power of two, and scale/opacity are only ever multiplied or divided by  *)
(* such values, so the float arithmetic of the code is exact on every      *)
(* value the model reaches and coincides with the rational arithmetic.     *)
(*                                                                         *)
(* Time.  _iso_now() reads the variable now; every call that writes layer  *)
(* state advances it by one tick, and so does every dispatched tool call   *)
(* and every compilation (cancel_run reads it and leaves it;               *)
(* needs_recompile never reads it).                                        *)
(***************************************************************************)
EXTENDS Integers, Sequences, FiniteSets, TLC

\* ------------------------------------------------------------------------
\* Bounds of the model
\* ------------------------------------------------------------------------

\* number of time-stamping calls (set, batch_set, live reconcile, ...) in a run
MaxCalls == 2

\* largest state_version up to which undo and redo of the service are explored
MaxVersion == 3

\* ------------------------------------------------------------------------
\* Rational arithmetic (the float operations of the code)
\* ------------------------------------------------------------------------

Abs(n) == IF n < 0 THEN -n ELSE n

RECURSIVE GCD(_, _)
GCD(a, b) == IF b = 0 THEN a ELSE GCD(b, a % b)

Norm(n, d) ==
    LET s == IF d < 0 THEN -1 ELSE 1
        g == GCD(Abs(n), Abs(d))
    IN  <<(s * n) \div g, (s * d) \div g>>

R(n) == <<n, 1>>
Half == <<1, 2>>
RAdd(a, b) == Norm(a[1] * b[2] + b[1] * a[2], a[2] * b[2])
RSub(a, b) == Norm(a[1] * b[2] - b[1] * a[2], a[2] * b[2])
RMul(a, b) == Norm(a[1] * b[1], a[2] * b[2])
RDiv(a, b) == Norm(a[1] * b[2], a[2] * b[1])
RLt(a, b) == a[1] * b[2] < b[1] * a[2]
RLe(a, b) == a[1] * b[2] <= b[1] * a[2]
RMin(a, b) == IF RLt(b, a) THEN b ELSE a
RMax(a, b) == IF RLt(a, b) THEN b ELSE a
RAbs(a) == <<Abs(a[1]), a[2]>>
RNeg(a) == <<-a[1], a[2]>>

\* ------------------------------------------------------------------------
\* runtime/state_store.py
\* ------------------------------------------------------------------------

TRACKED_FIELDS ==
    {"x", "y", "scale", "rotation", "opacity", "visible", "origin", "status",
     "lastUpdate", "z"}

ADDITIVE_FIELDS == {"x", "y", "rotation", "z"}

\* origin is None (the empty tuple) or a point <<x, y>>
None == <<>>

ClampOpacityUnclamped(value) == value

\* _clamp_opacity: max(0.0, min(1.0, float(value)))
ClampOpacity(value) == RMax(R(0), RMin(R(1), value))

\* _default_layer_state(default_origin) at time t
DefaultLayerState(default_origin, t) ==
    [x |-> R(0), y |-> R(0), scale |-> R(1), rotation |-> R(0),
     opacity |-> R(1), visible |-> TRUE, origin |-> default_origin,
     status |-> "idle", lastUpdate |-> t, z |-> R(0)]

\* StateStore.from_layer_map_full: rows in document order, a later row with
\* the same id overwrites the earlier one in both maps
RECURSIVE FromLayerMapFull(_, _, _)
FromLayerMapFull(layers, S, t) ==
    IF layers = <<>> THEN S
    ELSE LET layer == Head(layers)
             id == layer.id
             S1 == [S EXCEPT
                      !.layer_tree =
                          [k \in DOMAIN S.layer_tree \cup {id} |->
                              IF k = id THEN layer.children ELSE S.layer_tree[k]],
                      !.current =
                          [k \in DOMAIN S.current \cup {id} |->
                              IF k = id THEN DefaultLayerState(layer.defaultOrigin, t)
                              ELSE S.current[k]]]
         IN  FromLayerMapFull(Tail(layers), S1, t)

EmptyStore == [layer_tree |-> <<>>, current |-> <<>>, history |-> <<>>, future |-> <<>>]

\* StateStore._ensure_layer
EnsureLayer(S, layer_id, t) ==
    LET cur == IF layer_id \in DOMAIN S.current THEN S.current
               ELSE [k \in DOMAIN S.current \cup {layer_id} |->
                        IF k = layer_id THEN DefaultLayerState(None, t)
                        ELSE S.current[k]]
        tree == IF layer_id \in DOMAIN S.layer_tree THEN S.layer_tree
                ELSE [k \in DOMAIN S.layer_tree \cup {layer_id} |->
                        IF k = layer_id THEN <<>> ELSE S.layer_tree[k]]
    IN  [S EXCEPT !.current = cur, !.layer_tree = tree]

CommitHistoryKeepsFuture(S) ==
    [S EXCEPT !.history = Append(S.history, S.current)]

\* StateStore._commit_history
CommitHistory(S) ==
    [S EXCEPT !.history = Append(S.history, S.current), !.future = <<>>]

\* the tracked fields that _normalize_props passes through float()
FLOAT_FIELDS == {"opacity", "scale", "x", "y", "rotation", "z"}

\* a value that float() rejects with ValueError, such as the string "abc";
\* written as a pair that is no rational
Unparsable == <<0, 0>>

\* _normalize_props raises on these props
NormalizeRaises(props) ==
    \E k \in DOMAIN props \cap FLOAT_FIELDS : props[k] = Unparsable

\* StateStore._normalize_props: untracked keys are dropped, opacity is
\* clamped, the other tracked values keep their value under float(), bool(),
\* str() and deepcopy(); lastUpdate defaults to the current time
NormalizeProps(props, t) ==
    [k \in ((DOMAIN props) \cap TRACKED_FIELDS) \cup {"lastUpdate"} |->
        IF k \in DOMAIN props
        THEN IF k = "opacity" THEN ClampOpacity(props[k]) ELSE props[k]
        ELSE t]

UpdateKeepingState(state, normalized) ==
    [k \in DOMAIN state \cup DOMAIN normalized |->
        IF k \in DOMAIN state THEN state[k] ELSE normalized[k]]

\* dict.update on a layer state
Update(state, normalized) ==
    [k \in DOMAIN state \cup DOMAIN normalized |->
        IF k \in DOMAIN normalized THEN normalized[k] ELSE state[k]]

\* StateStore._apply_direct
ApplyDirect(S, layer_id, props, t) ==
    LET S1 == EnsureLayer(S, layer_id, t)
    IN  [S1 EXCEPT !.current[layer_id] = Update(@, NormalizeProps(props, t))]

\* the deltas and ratios computed at the head of _propagate_group_delta
GroupDelta(old_parent, new_parent) ==
    [x |-> RSub(new_parent.x, old_parent.x),
     y |-> RSub(new_parent.y, old_parent.y),
     rotation |-> RSub(new_parent.rotation, old_parent.rotation),
     z |-> RSub(new_parent.z, old_parent.z),
     scale_ratio |-> IF old_parent.scale = R(0) THEN R(1)
                     ELSE RDiv(new_parent.scale, old_parent.scale),
     opacity_ratio |-> IF old_parent.opacity = R(0) THEN R(1)
                       ELSE RDiv(new_parent.opacity, old_parent.opacity)]

\* the body of the child loop of _propagate_group_delta, for one child state
ApplyDelta(child, d, t) ==
    [child EXCEPT !.x = RAdd(@, d.x), !.y = RAdd(@, d.y),
                  !.rotation = RAdd(@, d.rotation), !.z = RAdd(@, d.z),
                  !.scale = RMul(@, d.scale_ratio),
                  !.opacity = ClampOpacity(RMul(@, d.opacity_ratio)),
                  !.lastUpdate = t]

RECURSIVE PropagateGroupDelta(_, _, _, _, _)
RECURSIVE PropagateChildren(_, _, _, _)

\* the loop "for child_id in children" of _propagate_group_delta
PropagateChildren(S, children, d, t) ==
    IF children = <<>> THEN S
    ELSE LET child_id == Head(children)
             S1 == EnsureLayer(S, child_id, t)
             child_before == S1.current[child_id]
             S2 == [S1 EXCEPT !.current[child_id] = ApplyDelta(@, d, t)]
             S3 == PropagateGroupDelta(S2, child_id, child_before,
                                       S2.current[child_id], t)
         IN  PropagateChildren(S3, Tail(children), d, t)

\* StateStore._propagate_group_delta
PropagateGroupDelta(S, layer_id, old_parent, new_parent, t) ==
    LET children == IF layer_id \in DOMAIN S.layer_tree
                    THEN S.layer_tree[layer_id] ELSE <<>>
    IN  IF children = <<>> THEN S
        ELSE PropagateChildren(S, children, GroupDelta(old_parent, new_parent), t)

\* a set that passes the change on to the children whatever "propagate" says
ApplyAndPropagateAlways(S, layer_id, props, propagate, t) ==
    LET S1 == EnsureLayer(S, layer_id, t)
        old_parent == S1.current[layer_id]
        S2 == ApplyDirect(S1, layer_id, props, t)
    IN  PropagateGroupDelta(S2, layer_id, old_parent, S2.current[layer_id], t)

\* the part of set and batch_set after the history commit
ApplyAndPropagate(S, layer_id, props, propagate, t) ==
    LET S1 == EnsureLayer(S, layer_id, t)
        old_parent == S1.current[layer_id]
        S2 == ApplyDirect(S1, layer_id, props, t)
    IN  IF propagate /\ S2.layer_tree[layer_id] # <<>>
        THEN PropagateGroupDelta(S2, layer_id, old_parent, S2.current[layer_id], t)
        ELSE S2

\* StateStore.set: the resulting store; when _normalize_props raises, the
\* entry and the history snapshot made before it stay
StoreSet(S, layer_id, props, propagate, t) ==
    IF NormalizeRaises(props) THEN CommitHistory(EnsureLayer(S, layer_id, t))
    ELSE ApplyAndPropagate(CommitHistory(EnsureLayer(S, layer_id, t)),
                           layer_id, props, propagate, t)

\* StateStore.batch_set: the loop over the changes
RECURSIVE BatchLoop(_, _, _, _)
BatchLoop(S, changes, propagate, t) ==
    IF changes = <<>> THEN S
    ELSE LET change == Head(changes)
             S1 == IF change.layerId = "" THEN S
                   ELSE ApplyAndPropagate(S, change.layerId, change.props, propagate, t)
         IN  BatchLoop(S1, Tail(changes), propagate, t)

StoreBatchSetCommitLast(S, changes, propagate, t) ==
    CommitHistory(BatchLoop(S, changes, propagate, t))

\* StateStore.batch_set: the resulting store
StoreBatchSet(S, changes, propagate, t) ==
    BatchLoop(CommitHistory(S), changes, propagate, t)

StoreUndoPopFirst(S) ==
    IF S.history = <<>> THEN S
    ELSE [S EXCEPT !.future = Append(S.future, S.history[Len(S.history)]),
                   !.current = S.history[Len(S.history)],
                   !.history = SubSeq(S.history, 1, Len(S.history) - 1)]

\* StateStore.undo
StoreUndo(S) ==
    IF S.history = <<>> THEN S
    ELSE [S EXCEPT !.future = Append(S.future, S.current),
                   !.current = S.history[Len(S.history)],
                   !.history = SubSeq(S.history, 1, Len(S.history) - 1)]

StoreRedoPushBeforeCheck(S) ==
    IF S.future = <<>> THEN [S EXCEPT !.history = Append(S.history, S.current)]
    ELSE [S EXCEPT !.history = Append(S.history, S.current),
                   !.current = S.future[Len(S.future)],
                   !.future = SubSeq(S.future, 1, Len(S.future) - 1)]

\* StateStore.redo
StoreRedo(S) ==
    IF S.future = <<>> THEN S
    ELSE [S EXCEPT !.history = Append(S.history, S.current),
                   !.current = S.future[Len(S.future)],
                   !.future = SubSeq(S.future, 1, Len(S.future) - 1)]

\* ------------------------------------------------------------------------
\* runtime/reconcile.py
\* ------------------------------------------------------------------------

RECONCILE_FIELDS ==
    {"x", "y", "scale", "rotation", "opacity", "visible", "origin", "status", "z"}

\* the fields whose values are int or float, compared with the tolerance
NUMERIC_FIELDS == {"x", "y", "scale", "rotation", "opacity", "z"}

\* the default tolerance 1e-6
Tolerance == <<1, 1000000>>

\* the order in which a dict of layers is iterated: layers keep the order in
\* which they were inserted, which for the snapshots of the model is the
\* document order followed by lazily created ids
LayerOrder == <<"leaf", "grp", "twin", "root", "ghost">>

\* _values_different(store_state.get(field), dom_state.get(field)): an absent
\* field reads as None, which differs from every value
ValuesDifferent(field, store_state, dom_state) ==
    IF field \notin DOMAIN store_state \/ field \notin DOMAIN dom_state
    THEN (field \in DOMAIN store_state) # (field \in DOMAIN dom_state)
    ELSE IF field \in NUMERIC_FIELDS
         THEN RLt(Tolerance, RAbs(RSub(store_state[field], dom_state[field])))
         ELSE store_state[field] # dom_state[field]

PreferIsValidAlways(prefer) == TRUE

\* the check at the head of reconcile_with_dom; the call raises ValueError
\* when it fails
PreferIsValid(prefer) == prefer \in {"dom", "store"}

AuthorityIgnoringLock(store_state, prefer) == prefer

\* rule 1 and 2 of reconcile_with_dom
Authority(store_state, prefer) ==
    IF store_state.status = "locked" THEN "store" ELSE prefer

\* the fields of one layer that the loop over RECONCILE_FIELDS marks as changed
ChangedFields(store_state, dom_state, authoritative) ==
    {field \in RECONCILE_FIELDS :
        /\ field \in DOMAIN dom_state \/ field \in DOMAIN store_state
        /\ authoritative = "dom" => field \in DOMAIN dom_state
        /\ authoritative = "store" => field \in DOMAIN store_state
        /\ ValuesDifferent(field, store_state, dom_state)}

\* reconcile_with_dom: the loop over dom_layers.items(); acc holds the store,
\* the changed ids and the patch for the external side
RECURSIVE ReconcileLoop(_, _, _, _, _, _)
ReconcileLoop(acc, dom_layers, order, prefer, dry_run, t) ==
    IF order = <<>> THEN acc
    ELSE LET layer_id == Head(order)
             rest == Tail(order)
         IN  IF layer_id \notin DOMAIN dom_layers \/ layer_id \notin DOMAIN acc.store.current
             THEN ReconcileLoop(acc, dom_layers, rest, prefer, dry_run, t)
             ELSE LET dom_state == dom_layers[layer_id]
                      store_state == acc.store.current[layer_id]
                      authoritative == Authority(store_state, prefer)
                      fields == ChangedFields(store_state, dom_state, authoritative)
                      update_for_store ==
                          IF authoritative = "dom" THEN [f \in fields |-> dom_state[f]]
                          ELSE <<>>
                      update_for_dom ==
                          IF authoritative = "dom" THEN <<>>
                          ELSE [f \in fields |-> store_state[f]]
                      acc1 == [acc EXCEPT !.changed_layer_ids = @ \cup {layer_id}]
                      acc2 == IF DOMAIN update_for_store # {}
                              THEN [acc1 EXCEPT !.store =
                                       StoreSet(@, layer_id, update_for_store, FALSE, t)]
                              ELSE acc1
                      acc3 == IF DOMAIN update_for_dom # {}
                              THEN [acc2 EXCEPT !.dom_patch =
                                       [k \in DOMAIN acc2.dom_patch \cup {layer_id} |->
                                           IF k = layer_id THEN update_for_dom
                                           ELSE acc2.dom_patch[k]]]
                              ELSE acc2
                      next == IF fields = {} THEN acc
                              ELSE IF dry_run THEN acc1
                              ELSE acc3
                  IN  ReconcileLoop(next, dom_layers, rest, prefer, dry_run, t)

ReconcileWithDomIgnoringDryRun(S, dom_layers, prefer, dry_run, t) ==
    ReconcileLoop([store |-> S, changed_layer_ids |-> {}, dom_patch |-> <<>>],
                  dom_layers, LayerOrder, prefer, FALSE, t)

\* reconcile_with_dom for a valid preference: the store afterwards and the
\* ReconcileResult (changed_layer_ids is the sorted, deduplicated list)
ReconcileWithDom(S, dom_layers, prefer, dry_run, t) ==
    ReconcileLoop([store |-> S, changed_layer_ids |-> {}, dom_patch |-> <<>>],
                  dom_layers, LayerOrder, prefer, dry_run, t)

\* ------------------------------------------------------------------------
\* State
\* ------------------------------------------------------------------------

VARIABLES
    layer_tree,     \* StateStore.layer_tree: layer id -> sequence of child ids
    current,        \* StateStore.current: layer id -> layer state
    history,        \* StateStore.history: the undo stack of state maps
    future,         \* StateStore.future: the redo stack of state maps
    layer_map_full, \* RuntimeService.layer_map_full["layers"]: the compiled layer rows
    dom_layers,     \* RuntimeService.dom_layers: the external copy of the state map
    state_version,  \* RuntimeService.state_version
    cache_state,    \* RuntimeService.cache_state: cache key -> state document
    compile_manifest, \* RuntimeService.compile_manifest
    counter,        \* ExecutionEngine._counter
    active_runs,    \* ExecutionEngine.active_runs: run id -> run record
    completed_runs, \* ExecutionEngine.completed_runs: run id -> run record
    now,            \* the clock read by _iso_now()
    ret,            \* the last call: its arguments, its result, the store before it
    prev,           \* the call before the last one
    set_run,        \* bookkeeping of a run of set calls followed by undo calls
    undo_run        \* bookkeeping of a run of undo calls followed by redo calls

storeVars == <<layer_tree, current, history, future>>
serviceVars ==
    <<layer_map_full, dom_layers, state_version, cache_state, compile_manifest>>
engineVars == <<counter, active_runs, completed_runs>>

vars ==
    <<layer_tree, current, history, future, layer_map_full, dom_layers,
      state_version, cache_state, compile_manifest, counter, active_runs,
      completed_runs, now,
      ret, prev, set_run, undo_run>>

\* the StateStore object
Store ==
    [layer_tree |-> layer_tree, current |-> current, history |-> history,
     future |-> future]

Install(S) ==
    /\ layer_tree' = S.layer_tree
    /\ current' = S.current
    /\ history' = S.history
    /\ future' = S.future

\* ------------------------------------------------------------------------
\* Inputs
\* ------------------------------------------------------------------------

\* _infer_capabilities / _collect_layers: every compiled layer gets the same
\* numeric constraints
MaxRotation == 45
MinDepth == -200
MaxDepth == 200

Constraints ==
    [maxRotation |-> R(MaxRotation), minDepth |-> R(MinDepth), maxDepth |-> R(MaxDepth)]

\* layer rows of a compiled full layer map, in the order of the map, for the
\* source
\*   <svg id="root"><g id="grp"><rect id="leaf"/></g></svg>
DocNested ==
    <<[id |-> "leaf", children |-> <<>>, defaultOrigin |-> <<R(1), R(1)>>,
       constraints |-> Constraints],
      [id |-> "grp", children |-> <<"leaf">>, defaultOrigin |-> <<R(1), R(1)>>,
       constraints |-> Constraints],
      [id |-> "root", children |-> <<"grp">>, defaultOrigin |-> <<R(1), R(1)>>,
       constraints |-> Constraints]>>

\* layer rows for the source <svg id="root"><rect/><rect/></svg>: the two
\* anonymous rects have the same fingerprint and so the same synthesized id
\* (written "twin" here), which the parent lists twice among its children
DocTwins ==
    <<[id |-> "twin", children |-> <<>>, defaultOrigin |-> <<Half, Half>>,
       constraints |-> Constraints],
      [id |-> "twin", children |-> <<>>, defaultOrigin |-> <<Half, Half>>,
       constraints |-> Constraints],
      [id |-> "root", children |-> <<"twin", "twin">>, defaultOrigin |-> <<Half, Half>>,
       constraints |-> Constraints]>>

Documents == {DocNested, DocTwins}

\* the calls of StateStore.set that the model issues
SetCalls ==
    {[layer |-> "root", propagate |-> TRUE,
      props |-> [x |-> R(10), y |-> R(-3), scale |-> R(2), rotation |-> R(5), z |-> R(7)]],
     [layer |-> "root", propagate |-> FALSE, props |-> [opacity |-> Half, x |-> R(1)]],
     [layer |-> "root", propagate |-> TRUE, props |-> [opacity |-> R(2)]],
     [layer |-> "root", propagate |-> TRUE,
      props |-> [opacity |-> R(-2), bogus |-> R(1), status |-> "paused"]],
     [layer |-> "root", propagate |-> TRUE, props |-> [x |-> R(0)]],
     [layer |-> "grp", propagate |-> FALSE, props |-> [scale |-> R(0), rotation |-> R(40)]],
     [layer |-> "grp", propagate |-> TRUE, props |-> <<>>],
     [layer |-> "leaf", propagate |-> TRUE,
      props |-> [opacity |-> Half, visible |-> FALSE, origin |-> <<R(2), R(3)>>, lastUpdate |-> 0]],
     [layer |-> "leaf", propagate |-> TRUE, props |-> [x |-> R(7), status |-> "locked"]],
     [layer |-> "ghost", propagate |-> TRUE, props |-> [bogus |-> R(1)]]}

\* the calls of StateStore.batch_set that the model issues; a change whose
\* layerId is empty is one the loop skips
BatchCalls ==
    {[propagate |-> TRUE,
      changes |-> <<[layerId |-> "root", props |-> [x |-> R(3), scale |-> Half]],
                    [layerId |-> "", props |-> [x |-> R(9)]],
                    [layerId |-> "ghost", props |-> [opacity |-> R(2), z |-> R(-1)]]>>],
     [propagate |-> FALSE,
      changes |-> <<[layerId |-> "root", props |-> [rotation |-> R(5)]]>>],
     [propagate |-> TRUE, changes |-> <<>>]}

\* the external snapshots, preferences and modes of reconcile_with_dom that
\* the model issues
DomSnapshots ==
    {[leaf |-> [x |-> R(99), status |-> "idle"], ghost |-> [x |-> R(3)]],
     [root |-> [x |-> R(0), opacity |-> R(5), rotation |-> R(999), bogus |-> R(1)],
      twin |-> [z |-> R(-300), visible |-> FALSE],
      leaf |-> [x |-> R(7), status |-> "locked", lastUpdate |-> 9]]}

ReconcileCalls ==
    {[dom |-> d, prefer |-> p, dry_run |-> b] :
        d \in DomSnapshots, p \in {"dom", "store"}, b \in BOOLEAN}

\* calls of reconcile_with_dom with a preference the function does not
\* know, next to one it knows
LookupReconcileCalls ==
    {[dom |-> [leaf |-> [x |-> R(99), status |-> "idle"], ghost |-> [x |-> R(3)]],
      prefer |-> p, dry_run |-> FALSE] : p \in {"auto", "", "dom"}}

\* ------------------------------------------------------------------------
\* compiler/layer_compiler.py: the compilation of a source text
\* ------------------------------------------------------------------------

\* the tags that visit skips together with everything below them
SKIPPED_TAGS == {"defs", "clipPath", "mask", "style", "metadata", "title", "desc"}

\* an ET.Element: attrib maps attribute names to values, children are
\* elements in document order
Element(tag, attrib, text, children) ==
    [tag |-> tag, attrib |-> attrib, text |-> text, children |-> children]

\* <svg id="root"><g id="grp"><rect id="leaf"/></g></svg>
TreeNested ==
    Element("svg", [id |-> "root"], "",
            <<Element("g", [id |-> "grp"], "",
                      <<Element("rect", [id |-> "leaf"], "", <<>>)>>)>>)

\* <svg id="root"><rect width="1"/><rect width="1"/></svg>
TreeTwins ==
    Element("svg", [id |-> "root"], "",
            <<Element("rect", [width |-> "1"], "", <<>>),
              Element("rect", [width |-> "1"], "", <<>>)>>)

\* <svg width="320"><defs><rect id="clip"/></defs><rect id="bg"/>
\*   <g id="title.group"><text id="title">Highlife</text><path d="M10 10"/></g>
\*   <circle r="24"/></svg>
TreeSample ==
    Element("svg", [width |-> "320"], " ",
            <<Element("defs", <<>>, "", <<Element("rect", [id |-> "clip"], "", <<>>)>>),
              Element("rect", [id |-> "bg"], "", <<>>),
              Element("g", [id |-> "title.group"], " ",
                      <<Element("text", [id |-> "title"], "Highlife", <<>>),
                        Element("path", [d |-> "M10 10"], "", <<>>)>>),
              Element("circle", [r |-> "24"], "", <<>>)>>)

\* the source texts handed to the compiler: "nested" and "nested, reindented"
\* differ in the white space between the elements only, "broken" is not
\* well-formed
SourceTexts == {"nested", "nested, reindented", "twins", "sample", "broken"}

\* whether ET.fromstring accepts the text
Parses(svg_text) == svg_text # "broken"

\* ET.fromstring on a text that it accepts
Parse(svg_text) ==
    CASE svg_text = "nested" -> TreeNested
      [] svg_text = "nested, reindented" ->
             [TreeNested EXCEPT !.text = " ", !.children[1].text = " "]
      [] svg_text = "twins" -> TreeTwins
      [] svg_text = "sample" -> TreeSample

\* the compiler versions in use
CompilerVersions == {"0.1.0", "0.2.0"}

\* _sha256_text, as a digest that differs for different texts
Sha256Text(value) == <<"sha256", value>>

\* LayerCompiler.source_checksum
SourceChecksum(svg_text) == Sha256Text(svg_text)

\* _payload_checksum: the digest of the canonical dump of the payload, which
\* differs for payloads that differ in any field
PayloadChecksum(payload) == Sha256Text(payload)

\* str.strip on the texts and ids of the sources above
Strip(value) == IF value = " " THEN "" ELSE value

\* _fingerprint_for_node: the digest of the tag, the attributes other than
\* id and the stripped text, as a value that differs when one of them does
FingerprintForNode(node) ==
    [tag |-> node.tag,
     attrs |-> [k \in DOMAIN node.attrib \ {"id"} |-> Strip(node.attrib[k])],
     text |-> Strip(node.text)]

\* re.sub(r"[^a-zA-Z0-9_\-]", "_", source_id) on the ids of the sources above
SanitizedId(source_id) == IF source_id = "title.group" THEN "title_group" ELSE source_id

\* _stable_layer_id: <<"id", s>> stands for the sanitized source id s and
\* <<"layer", tag, fingerprint>> for the string layer_<tag>_<fingerprint>
StableLayerId(node, fingerprint) ==
    IF "id" \in DOMAIN node.attrib /\ Strip(node.attrib["id"]) # ""
    THEN <<"id", SanitizedId(Strip(node.attrib["id"]))>>
    ELSE <<"layer", node.tag, fingerprint>>

\* _infer_type
InferType(tag) ==
    IF tag = "text" THEN "text"
    ELSE IF tag \in {"rect", "circle", "ellipse", "line", "polygon", "polyline", "path"}
    THEN "shape"
    ELSE IF tag = "g" THEN "group"
    ELSE IF tag = "image" THEN "image"
    ELSE "unknown"

\* the row that visit appends for a node; label, aliases, tags, bounding box
\* and capabilities, which depend on the node and its subtree alone, are not
\* part of the model
LayerRow(node, parent_id, z_index, child_ids) ==
    [id |-> StableLayerId(node, FingerprintForNode(node)),
     type |-> InferType(node.tag),
     zIndex |-> z_index,
     fingerprint |-> FingerprintForNode(node),
     children |-> child_ids,
     constraints |-> Constraints,
     metadata |-> [tag |-> node.tag, parent |-> parent_id,
                   attributeCount |-> Cardinality(DOMAIN node.attrib)]]

\* the end of visit for a node that is not skipped, after the loop over its
\* children: the node takes the current value of the counter, the counter
\* advances and the row is appended
VisitDone(node, parent_id, acc) ==
    [rows |-> Append(acc.rows, LayerRow(node, parent_id, acc.z, acc.child_ids)),
     z |-> acc.z + 1, emitted |-> TRUE]

\* one round of the loop over the children: the child's id is kept when the
\* visit of the child returned a bounding box, that is, was not skipped
AfterChild(child, res, child_ids) ==
    [rows |-> res.rows, z |-> res.z,
     child_ids |-> IF res.emitted
                   THEN Append(child_ids, StableLayerId(child, FingerprintForNode(child)))
                   ELSE child_ids]

RECURSIVE Visit(_, _, _)
RECURSIVE VisitChildren(_, _, _)

\* visit(node, parent_id, z_counter) of _collect_layers; acc holds the rows
\* collected so far and the counter
Visit(node, parent_id, acc) ==
    IF node.tag \in SKIPPED_TAGS
    THEN [rows |-> acc.rows, z |-> acc.z, emitted |-> FALSE]
    ELSE VisitDone(node, parent_id,
                   VisitChildren(node.children,
                                 StableLayerId(node, FingerprintForNode(node)),
                                 [rows |-> acc.rows, z |-> acc.z, child_ids |-> <<>>]))

\* the loop over the children of a node in visit
VisitChildren(children, layer_id, acc) ==
    IF children = <<>> THEN acc
    ELSE VisitChildren(Tail(children), layer_id,
                       AfterChild(Head(children), Visit(Head(children), layer_id, acc),
                                  acc.child_ids))

\* LayerCompiler._collect_layers; the root has no parent
CollectLayers(root) == Visit(root, None, [rows |-> <<>>, z |-> 0]).rows

RECURSIVE InsertByZIndex(_, _)
\* the sorted rows with one more row, put behind the rows whose zIndex is not
\* larger
InsertByZIndex(row, sorted) ==
    IF sorted = <<>> THEN <<row>>
    ELSE IF row.zIndex < Head(sorted).zIndex THEN <<row>> \o sorted
    ELSE <<Head(sorted)>> \o InsertByZIndex(row, Tail(sorted))

RECURSIVE SortedByZIndex(_)
\* sorted(layer_rows, key=zIndex), which is stable
SortedByZIndex(rows) ==
    IF rows = <<>> THEN <<>>
    ELSE InsertByZIndex(rows[Len(rows)], SortedByZIndex(SubSeq(rows, 1, Len(rows) - 1)))

\* the rows of the minimal projection
MinLayers(rows) ==
    [i \in 1..Len(rows) |->
        [id |-> rows[i].id, type |-> rows[i].type, zIndex |-> rows[i].zIndex,
         fingerprint |-> rows[i].fingerprint]]

\* the envelope of a layer map document
LayerMapDocument(layers, svg_text, compiler_version, generated_at) ==
    [schemaVersion |-> "1.0", compilerVersion |-> compiler_version,
     sourceChecksum |-> SourceChecksum(svg_text), generatedAt |-> generated_at,
     layerCount |-> Len(layers), layers |-> layers]

\* the CompileResult built from the two documents
CompileResult(map_min, map_full, svg_text, compiler_version, generated_at) ==
    [layer_map_min |-> map_min,
     layer_map_full |-> map_full,
     compile_manifest |->
         [schemaVersion |-> "1.0", compilerVersion |-> compiler_version,
          sourceChecksum |-> SourceChecksum(svg_text),
          layerMapMinChecksum |-> PayloadChecksum(map_min),
          layerMapFullChecksum |-> PayloadChecksum(map_full),
          generatedAt |-> generated_at],
     recompile_required |-> TRUE, recompile_reason |-> "compiled"]

\* the CompileResult built from the sorted rows
CompileRows(rows, svg_text, compiler_version, generated_at) ==
    CompileResult(LayerMapDocument(MinLayers(rows), svg_text, compiler_version,
                                   generated_at),
                  LayerMapDocument(rows, svg_text, compiler_version, generated_at),
                  svg_text, compiler_version, generated_at)

\* a compile that makes the time of the compilation a part of every layer id
CompileStampingIds(svg_text, compiler_version, generated_at) ==
    CompileRows([i \in 1..Len(SortedByZIndex(CollectLayers(Parse(svg_text)))) |->
                    [SortedByZIndex(CollectLayers(Parse(svg_text)))[i] EXCEPT
                        !.id = <<@, generated_at>>]],
                svg_text, compiler_version, generated_at)

\* LayerCompiler.compile of a text that parses, by a compiler of the given
\* version, at the time generated_at that _iso_now returns
Compile(svg_text, compiler_version, generated_at) ==
    CompileRows(SortedByZIndex(CollectLayers(Parse(svg_text))), svg_text,
                compiler_version, generated_at)

\* the reason None that needs_recompile returns with False
NoReason == ""

\* a needs_recompile that looks at the compiler version before the checksum
NeedsRecompileVersionFirst(svg_text, previous_manifest, manual_recompile, compiler_version) ==
    IF manual_recompile THEN [required |-> TRUE, reason |-> "manual_recompile"]
    ELSE IF DOMAIN previous_manifest = {}
    THEN [required |-> TRUE, reason |-> "missing_manifest"]
    ELSE IF \/ "compilerVersion" \notin DOMAIN previous_manifest
            \/ previous_manifest["compilerVersion"] # compiler_version
    THEN [required |-> TRUE, reason |-> "compiler_version_changed"]
    ELSE IF \/ "sourceChecksum" \notin DOMAIN previous_manifest
            \/ previous_manifest["sourceChecksum"] # SourceChecksum(svg_text)
    THEN [required |-> TRUE, reason |-> "source_checksum_changed"]
    ELSE [required |-> FALSE, reason |-> NoReason]

\* LayerCompiler.needs_recompile of a compiler of the given version; the
\* manifest is a dict, empty for None and for {}, and dict.get of a missing
\* key gives None, which equals no checksum and no version
NeedsRecompile(svg_text, previous_manifest, manual_recompile, compiler_version) ==
    IF manual_recompile THEN [required |-> TRUE, reason |-> "manual_recompile"]
    ELSE IF DOMAIN previous_manifest = {}
    THEN [required |-> TRUE, reason |-> "missing_manifest"]
    ELSE IF \/ "sourceChecksum" \notin DOMAIN previous_manifest
            \/ previous_manifest["sourceChecksum"] # SourceChecksum(svg_text)
    THEN [required |-> TRUE, reason |-> "source_checksum_changed"]
    ELSE IF \/ "compilerVersion" \notin DOMAIN previous_manifest
            \/ previous_manifest["compilerVersion"] # compiler_version
    THEN [required |-> TRUE, reason |-> "compiler_version_changed"]
    ELSE [required |-> FALSE, reason |-> NoReason]

\* ------------------------------------------------------------------------
\* Bookkeeping of the calls
\* ------------------------------------------------------------------------

\* the ToolContext of a call that did not come through dispatch_tool
NoContext ==
    [subcalls |-> 0, recursive_depth |-> 0, timed_out |-> FALSE, fallback_mode |-> FALSE]

NoCall ==
    [op |-> "none", ok |-> TRUE, layer |-> "", props |-> <<>>, propagate |-> FALSE,
     changes |-> <<>>, applied |-> <<>>, dom |-> <<>>, prefer |-> "", dry_run |-> FALSE,
     changed_layer_ids |-> {}, dom_patch |-> <<>>, runId |-> 0, pre |-> EmptyStore,
     ctx |-> NoContext, valid |-> TRUE, limit |-> 0, rejected |-> "",
     input |-> <<>>, output |-> <<>>]

NoRun == [base |-> <<>>, n |-> 0, m |-> 0, failed |-> FALSE]

\* set_run after a call: n counts the set calls of the run, m the undo calls
\* that followed them, base is the state map before the first set
SetRunAfter(op, ok) ==
    IF op = "set"
    THEN IF set_run.n > 0 /\ set_run.m = 0
         THEN [set_run EXCEPT !.n = @ + 1]
         ELSE [base |-> current, n |-> 1, m |-> 0, failed |-> FALSE]
    ELSE IF op = "undo" /\ set_run.n > set_run.m
         THEN IF ok THEN [set_run EXCEPT !.m = @ + 1]
              ELSE [set_run EXCEPT !.failed = TRUE]
         ELSE NoRun

\* undo_run after a call: n counts the successful undo calls of the run, m the
\* redo calls that followed them, base is the state map before the first undo
UndoRunAfter(op, ok) ==
    IF op = "undo" /\ ok
    THEN IF undo_run.n > 0 /\ undo_run.m = 0
         THEN [undo_run EXCEPT !.n = @ + 1]
         ELSE [base |-> current, n |-> 1, m |-> 0, failed |-> FALSE]
    ELSE IF op = "redo" /\ undo_run.n > undo_run.m
         THEN IF ok THEN [undo_run EXCEPT !.m = @ + 1]
              ELSE [undo_run EXCEPT !.failed = TRUE]
         ELSE NoRun

Record(call) ==
    /\ ret' = call
    /\ prev' = ret
    /\ set_run' = SetRunAfter(call.op, call.ok)
    /\ undo_run' = UndoRunAfter(call.op, call.ok)

\* ------------------------------------------------------------------------
\* The runtime after construction; the actions of the state store used on
\* its own (StateStore and reconcile_with_dom called directly)
\* ------------------------------------------------------------------------

\* the version of the compiler of the service unless another one is given
COMPILER_VERSION == "0.1.0"

\* the source text whose compiled rows are the given document
SourceOf(doc) == IF doc = DocNested THEN "nested" ELSE "twins"

\* RuntimeService.__post_init__ / compile_svg: the store built from the
\* compiled layer map, a fresh engine, dom_layers = store.get_state()
InitFrom(doc) ==
    LET S == FromLayerMapFull(doc, EmptyStore, 0)
    IN  /\ layer_tree = S.layer_tree
        /\ current = S.current
        /\ history = S.history
        /\ future = S.future
        /\ layer_map_full = doc
        /\ dom_layers = S.current
        /\ state_version = 0
        /\ cache_state = <<>>
        /\ compile_manifest = Compile(SourceOf(doc), COMPILER_VERSION, 0).compile_manifest
        /\ counter = 0
        /\ active_runs = <<>>
        /\ completed_runs = <<>>
        /\ now = 1
        /\ ret = NoCall
        /\ prev = NoCall
        /\ set_run = NoRun
        /\ undo_run = NoRun

Init == \E doc \in Documents : InitFrom(doc)

\* the runtime constructed from a source in which every id is unique
InitNested == InitFrom(DocNested)

\* store.set(layer_id, props, propagate)
Set ==
    \E call \in SetCalls :
        /\ now <= MaxCalls
        /\ Install(StoreSet(Store, call.layer, call.props, call.propagate, now))
        /\ now' = now + 1
        /\ Record([NoCall EXCEPT !.op = "set", !.layer = call.layer,
                                 !.props = call.props, !.propagate = call.propagate,
                                 !.applied = NormalizeProps(call.props, now),
                                 !.pre = Store])
        /\ UNCHANGED <<serviceVars, engineVars>>

\* store.batch_set(changes, propagate)
BatchSet ==
    \E call \in BatchCalls :
        /\ now <= MaxCalls
        /\ Install(StoreBatchSet(Store, call.changes, call.propagate, now))
        /\ now' = now + 1
        /\ Record([NoCall EXCEPT !.op = "batch_set", !.changes = call.changes,
                                 !.propagate = call.propagate, !.pre = Store])
        /\ UNCHANGED <<serviceVars, engineVars>>

\* store.undo()
Undo ==
    /\ Install(StoreUndo(Store))
    /\ UNCHANGED now
    /\ Record([NoCall EXCEPT !.op = "undo", !.ok = (history # <<>>), !.pre = Store])
    /\ UNCHANGED <<serviceVars, engineVars>>

\* store.redo()
Redo ==
    /\ Install(StoreRedo(Store))
    /\ UNCHANGED now
    /\ Record([NoCall EXCEPT !.op = "redo", !.ok = (future # <<>>), !.pre = Store])
    /\ UNCHANGED <<serviceVars, engineVars>>

\* store.get_layer_state(layer_id): _ensure_layer, then a copy of the entry
GetLayerState ==
    \E layer_id \in {"root", "ghost"} :
        LET S1 == EnsureLayer(Store, layer_id, now)
        IN  /\ layer_id \notin DOMAIN current => now <= MaxCalls
            /\ Install(S1)
            /\ now' = IF layer_id \in DOMAIN current THEN now ELSE now + 1
            /\ Record([NoCall EXCEPT !.op = "get_layer_state", !.layer = layer_id,
                                     !.applied = S1.current[layer_id], !.pre = Store])
            /\ UNCHANGED <<serviceVars, engineVars>>

\* reconcile_with_dom(store, dom_layers, prefer, dry_run)
DoReconcile(call) ==
    IF ~PreferIsValid(call.prefer)
    THEN /\ UNCHANGED <<storeVars, now>>
         /\ Record([NoCall EXCEPT !.op = "reconcile", !.ok = FALSE,
                                  !.dom = call.dom, !.prefer = call.prefer,
                                  !.dry_run = call.dry_run, !.pre = Store])
         /\ UNCHANGED <<serviceVars, engineVars>>
    ELSE LET res == ReconcileWithDom(Store, call.dom, call.prefer, call.dry_run, now)
         IN  /\ now <= MaxCalls
             /\ Install(res.store)
             /\ now' = now + 1
             /\ Record([NoCall EXCEPT !.op = "reconcile", !.dom = call.dom,
                                      !.prefer = call.prefer, !.dry_run = call.dry_run,
                                      !.changed_layer_ids = res.changed_layer_ids,
                                      !.dom_patch = res.dom_patch, !.pre = Store])
             /\ UNCHANGED <<serviceVars, engineVars>>

Reconcile == \E call \in ReconcileCalls : DoReconcile(call)

\* reconcile_with_dom called with any preference, known or not
ReconcileAnyPreference ==
    \E call \in LookupReconcileCalls : DoReconcile(call)

\* the external snapshot after the external side has adopted the patch, as
\* RuntimeService.reconcile does it: dom_layers.setdefault(id, {}).update(patch)
ApplyPatch(dom, dom_patch) ==
    [id \in DOMAIN dom \cup DOMAIN dom_patch |->
        IF id \notin DOMAIN dom_patch THEN dom[id]
        ELSE IF id \notin DOMAIN dom THEN dom_patch[id]
        ELSE [f \in DOMAIN dom[id] \cup DOMAIN dom_patch[id] |->
                 IF f \in DOMAIN dom_patch[id] THEN dom_patch[id][f] ELSE dom[id][f]]]

\* reconcile_with_dom called live once more right after a live call has
\* returned, with the same preference and with the snapshot of that call
\* after the returned patch has been applied to it
ReconcileAgain ==
    /\ ret.op = "reconcile"
    /\ ret.ok
    /\ ~ret.dry_run
    /\ Install(ReconcileWithDom(Store, ApplyPatch(ret.dom, ret.dom_patch),
                                ret.prefer, FALSE, now).store)
    /\ now' = now + 1
    /\ Record([NoCall EXCEPT
                  !.op = "reconcile_again",
                  !.dom = ApplyPatch(ret.dom, ret.dom_patch),
                  !.prefer = ret.prefer,
                  !.changed_layer_ids =
                      ReconcileWithDom(Store, ApplyPatch(ret.dom, ret.dom_patch),
                                       ret.prefer, FALSE, now).changed_layer_ids,
                  !.dom_patch =
                      ReconcileWithDom(Store, ApplyPatch(ret.dom, ret.dom_patch),
                                       ret.prefer, FALSE, now).dom_patch,
                  !.pre = Store])
    /\ UNCHANGED <<serviceVars, engineVars>>

Next == Set \/ BatchSet \/ Undo \/ Redo \/ Reconcile

Spec == Init /\ [][Next]_vars

SpecNested == InitNested /\ [][Next]_vars

\* the store under writes and under reconciliations that are repeated
NextReconcileTwice == Set \/ Reconcile \/ ReconcileAgain

SpecReconcileTwice == Init /\ [][NextReconcileTwice]_vars

\* the store under writes, reads of single layers and reconcile calls with
\* any preference
NextLookup == Set \/ GetLayerState \/ ReconcileAnyPreference

SpecLookup == Init /\ [][NextLookup]_vars

\* ------------------------------------------------------------------------
\* runtime/engine.py
\* ------------------------------------------------------------------------

Engine == [counter |-> counter, active_runs |-> active_runs,
           completed_runs |-> completed_runs]

InstallEngine(E) ==
    /\ counter' = E.counter
    /\ active_runs' = E.active_runs
    /\ completed_runs' = E.completed_runs

\* a dict with one more entry
Put(dict, key, value) ==
    [k \in DOMAIN dict \cup {key} |-> IF k = key THEN value ELSE dict[k]]

\* a dict without one key
Remove(dict, key) == [k \in DOMAIN dict \ {key} |-> dict[k]]

StartRunNumberedByActive(E, kind, t) ==
    LET run_id == Cardinality(DOMAIN E.active_runs) + 1
        run == [run_id |-> run_id, kind |-> kind, status |-> "running",
                started_at |-> t, finished_at |-> None, steps |-> <<>>]
    IN  [E EXCEPT !.counter = run_id, !.active_runs = Put(@, run_id, run)]

\* _next_run_id followed by the registration of the running record; the id
\* run_NNNNNN is represented by its number
StartRun(E, kind, t) ==
    LET run_id == E.counter + 1
        run == [run_id |-> run_id, kind |-> kind, status |-> "running",
                started_at |-> t, finished_at |-> None, steps |-> <<>>]
    IN  [E EXCEPT !.counter = run_id, !.active_runs = Put(@, run_id, run)]

\* _finish of the run with the given id, after its steps were recorded
Finish(E, run_id, steps, t) ==
    LET run == [E.active_runs[run_id] EXCEPT !.status = "completed",
                                             !.finished_at = t, !.steps = steps]
    IN  [E EXCEPT !.completed_runs = Put(@, run_id, run),
                  !.active_runs = Remove(@, run_id)]

\* the steps recorded so far on a run that is still active
WithSteps(E, run_id, steps) == [E EXCEPT !.active_runs[run_id].steps = steps]

\* the return of run_set once the run is registered (E1) and store.set has
\* run (S1): when store.set raised, the exception leaves the method before
\* _finish and the run stays registered as running
RunSetResult(S1, E1, layer_id, props, t) ==
    IF NormalizeRaises(props)
    THEN [store |-> S1, engine |-> E1, runId |-> E1.counter, raised |-> TRUE,
          plannedEndState |-> None]
    ELSE [store |-> EnsureLayer(S1, layer_id, t),
          engine |-> Finish(E1, E1.counter,
                            <<[layerId |-> layer_id, action |-> "set",
                               props |-> NormalizeProps(props, t)]>>, t),
          runId |-> E1.counter, raised |-> FALSE,
          plannedEndState |-> EnsureLayer(S1, layer_id, t).current[layer_id]]

\* ExecutionEngine.run_set
RunSet(S, E, layer_id, props, t) ==
    RunSetResult(StoreSet(S, layer_id, props, TRUE, t), StartRun(E, "set", t),
                 layer_id, props, t)

\* the store after the optional "from" step of run_animate and run_timeline;
\* from_props is the empty dict when absent
AfterFrom(S, layer_id, from_props, t) ==
    IF DOMAIN from_props # {} THEN StoreSet(S, layer_id, from_props, TRUE, t) ELSE S

\* the step that run_animate records for its "from" props
FromSteps(layer_id, from_props) ==
    IF DOMAIN from_props # {}
    THEN <<[layerId |-> layer_id, action |-> "from", props |-> from_props]>>
    ELSE <<>>

\* the return of run_animate once the run is registered (E1), the "from" set
\* has run (S1) and the "to" set has run on its result (S2)
RunAnimateResult(S1, S2, E1, layer_id, from_props, to_props, duration, ease, delay, t) ==
    IF DOMAIN from_props # {} /\ NormalizeRaises(from_props)
    THEN [store |-> S1, engine |-> E1, runId |-> E1.counter, raised |-> TRUE,
          plannedEndState |-> None]
    ELSE IF NormalizeRaises(to_props)
    THEN [store |-> S2,
          engine |-> WithSteps(E1, E1.counter, FromSteps(layer_id, from_props)),
          runId |-> E1.counter, raised |-> TRUE, plannedEndState |-> None]
    ELSE [store |-> EnsureLayer(S2, layer_id, t),
          engine |-> Finish(E1, E1.counter,
                            Append(FromSteps(layer_id, from_props),
                                   [layerId |-> layer_id, action |-> "to",
                                    props |-> to_props, duration |-> duration,
                                    ease |-> ease, delay |-> delay]), t),
          runId |-> E1.counter, raised |-> FALSE,
          plannedEndState |-> EnsureLayer(S2, layer_id, t).current[layer_id]]

\* a run_animate that goes to the "to" props at once and never applies the
\* "from" props
RunAnimateWithoutFrom(S, E, layer_id, from_props, to_props, duration, ease, delay, t) ==
    RunAnimateResult(S, StoreSet(S, layer_id, to_props, TRUE, t),
                     StartRun(E, "animate_layer", t),
                     layer_id, from_props, to_props, duration, ease, delay, t)

\* ExecutionEngine.run_animate
RunAnimate(S, E, layer_id, from_props, to_props, duration, ease, delay, t) ==
    RunAnimateResult(AfterFrom(S, layer_id, from_props, t),
                     StoreSet(AfterFrom(S, layer_id, from_props, t), layer_id,
                              to_props, TRUE, t),
                     StartRun(E, "animate_layer", t),
                     layer_id, from_props, to_props, duration, ease, delay, t)

RECURSIVE TimelineLoop(_, _, _)
RECURSIVE TimelineAfterFrom(_, _, _)
RECURSIVE TimelineAfterTo(_, _, _)

\* the loop over the steps of run_timeline: the store after the steps, the
\* number of steps recorded, and whether a store.set raised and ended the loop
TimelineLoop(S, steps, t) ==
    IF steps = <<>> THEN [store |-> S, done |-> 0, raised |-> FALSE]
    ELSE TimelineAfterFrom(AfterFrom(S, Head(steps).layerId, Head(steps).from, t),
                           steps, t)

\* the body of the loop after the "from" set of the first step has run (S1)
TimelineAfterFrom(S1, steps, t) ==
    IF DOMAIN Head(steps).from # {} /\ NormalizeRaises(Head(steps).from)
    THEN [store |-> S1, done |-> 0, raised |-> TRUE]
    ELSE TimelineAfterTo(StoreSet(S1, Head(steps).layerId, Head(steps).to, TRUE, t),
                         steps, t)

\* the body of the loop after the "to" set of the first step has run (S2)
TimelineAfterTo(S2, steps, t) ==
    IF NormalizeRaises(Head(steps).to)
    THEN [store |-> S2, done |-> 0, raised |-> TRUE]
    ELSE [TimelineLoop(S2, Tail(steps), t) EXCEPT !.done = @ + 1]

\* what ExecutionEngine.cancel_run returns: True exactly when the id is found
\* in active_runs
CancelRunReturns(E, run_id) == run_id \in DOMAIN E.active_runs

\* a cancel_run that also rewrites the record of a run that already ended
CancelRunRewritingEnded(E, run_id, t) ==
    IF run_id \in DOMAIN E.active_runs
    THEN LET run == [E.active_runs[run_id] EXCEPT !.status = "cancelled",
                                                  !.finished_at = t]
         IN  [E EXCEPT !.completed_runs = Put(@, run_id, run),
                       !.active_runs = Remove(@, run_id)]
    ELSE IF run_id \in DOMAIN E.completed_runs
    THEN [E EXCEPT !.completed_runs[run_id].status = "cancelled",
                   !.completed_runs[run_id].finished_at = t]
    ELSE E

\* ExecutionEngine.cancel_run: the engine afterwards (unchanged when the id is
\* not in the active set, for which the method returns False)
CancelRun(E, run_id, t) ==
    IF run_id \notin DOMAIN E.active_runs THEN E
    ELSE LET run == [E.active_runs[run_id] EXCEPT !.status = "cancelled",
                                                  !.finished_at = t]
         IN  [E EXCEPT !.completed_runs = Put(@, run_id, run),
                       !.active_runs = Remove(@, run_id)]

\* the step descriptors that run_timeline records
RecordedSteps(steps) ==
    [i \in 1..Len(steps) |->
        [layerId |-> steps[i].layerId, to |-> steps[i].to,
         duration |-> steps[i].duration, ease |-> steps[i].ease,
         delay |-> steps[i].delay, at |-> steps[i].at]]

\* the return of run_timeline once the run is registered (E1) and the loop
\* has run
RunTimelineResult(loop, E1, steps, t) ==
    IF loop.raised
    THEN [store |-> loop.store,
          engine |-> WithSteps(E1, E1.counter,
                               SubSeq(RecordedSteps(steps), 1, loop.done)),
          runId |-> E1.counter, raised |-> TRUE, stepCount |-> 0]
    ELSE [store |-> loop.store,
          engine |-> Finish(E1, E1.counter, RecordedSteps(steps), t),
          runId |-> E1.counter, raised |-> FALSE, stepCount |-> Len(steps)]

\* a run_timeline that executes the steps from the last one to the first,
\* which for steps listed by falling offset is the order of their offsets
RunTimelineLastStepFirst(S, E, steps, t) ==
    RunTimelineResult(TimelineLoop(S, [i \in 1..Len(steps) |-> steps[Len(steps) + 1 - i]], t),
                      StartRun(E, "timeline", t), steps, t)

\* ExecutionEngine.run_timeline
RunTimeline(S, E, steps, t) ==
    RunTimelineResult(TimelineLoop(S, steps, t), StartRun(E, "timeline", t), steps, t)

\* ------------------------------------------------------------------------
\* api/runtime_service.py
\* ------------------------------------------------------------------------

\* the ids of the compiled layers
LayerIds(layers) == {layers[i].id : i \in 1..Len(layers)}

\* _layer_full_by_id: the first row with the id (the caller has checked that
\* there is one; the code raises KeyError otherwise)
LayerFullById(layers, layer_id) ==
    layers[CHOOSE i \in 1..Len(layers) :
              /\ layers[i].id = layer_id
              /\ \A j \in 1..(i - 1) : layers[j].id # layer_id]

\* a _clamp_props that bounds the opacity and passes rotation and depth on
ClampPropsOpacityOnly(layers, layer_id, props) ==
    [k \in DOMAIN props |->
        IF k = "opacity" THEN RMax(R(0), RMin(R(1), props[k])) ELSE props[k]]

\* RuntimeService._clamp_props
ClampProps(layers, layer_id, props) ==
    LET constraints == LayerFullById(layers, layer_id).constraints
    IN  [k \in DOMAIN props |->
            IF k = "opacity" THEN RMax(R(0), RMin(R(1), props[k]))
            ELSE IF k = "rotation"
            THEN RMax(RNeg(RAbs(constraints.maxRotation)),
                      RMin(RAbs(constraints.maxRotation), props[k]))
            ELSE IF k = "z"
            THEN RMax(constraints.minDepth, RMin(constraints.maxDepth, props[k]))
            ELSE props[k]]

\* RuntimeService._touch_state; cache_snapshot, which it also clears, holds
\* only rendering placeholders and is not part of the model
TouchState(S) ==
    /\ state_version' = state_version + 1
    /\ dom_layers' = S.current
    /\ cache_state' = <<>>

\* the calls of the service that the model issues; "ghost" is not a compiled
\* layer
ServiceSetCalls ==
    {[layer |-> "root", props |-> [rotation |-> R(40), z |-> R(150)]],
     [layer |-> "root", props |-> [rotation |-> R(999), opacity |-> R(-2)]],
     [layer |-> "grp", props |-> [rotation |-> R(40), z |-> R(150), x |-> R(2)]],
     [layer |-> "leaf", props |-> [z |-> R(-500), status |-> "locked"]],
     [layer |-> "ghost", props |-> [x |-> R(1)]]}

\* calls of set_layer_state whose props hold a value that is no number; the
\* tool schema types props as Dict[str, Any], so such a value reaches the store
RaisingSetCalls ==
    {[layer |-> "leaf", props |-> [x |-> Unparsable]],
     [layer |-> "root", props |-> [rotation |-> R(10), scale |-> Unparsable]]}

\* a call of set_layer_state whose props hold a key the store does not track
UntrackedSetCalls ==
    {[layer |-> "leaf", props |-> [opacity |-> R(2), bogus |-> R(1)]]}

DepthCalls ==
    {[layer |-> "grp", z |-> R(500)], [layer |-> "ghost", z |-> R(1)]}

AnimateCalls ==
    {[layer |-> "grp", from |-> [rotation |-> R(-30)], to |-> [rotation |-> R(30)],
      duration |-> 1, ease |-> "linear", delay |-> 0, fallback |-> FALSE],
     [layer |-> "root", from |-> [x |-> R(5)], to |-> [x |-> R(9), rotation |-> R(999)],
      duration |-> 2, ease |-> "power2.out", delay |-> 1, fallback |-> TRUE],
     [layer |-> "ghost", from |-> <<>>, to |-> [x |-> R(1)],
      duration |-> 1, ease |-> "linear", delay |-> 0, fallback |-> FALSE]}

AnimateDepthCalls ==
    {[layer |-> "root", from |-> <<R(100)>>, to |-> R(500), duration |-> 1,
      ease |-> "linear", fallback |-> FALSE]}

TimelineCalls ==
    {[fallback |-> FALSE,
      steps |-> <<[layerId |-> "root", from |-> [z |-> R(100)], to |-> [z |-> R(-100)],
                   duration |-> 1, ease |-> "linear", delay |-> 0, at |-> 2],
                  [layerId |-> "root", from |-> <<>>, to |-> [rotation |-> R(30)],
                   duration |-> 1, ease |-> "linear", delay |-> 1, at |-> 1],
                  [layerId |-> "root", from |-> <<>>, to |-> [rotation |-> R(-30)],
                   duration |-> 1, ease |-> "linear", delay |-> 0, at |-> 0]>>],
     [fallback |-> FALSE,
      steps |-> <<[layerId |-> "root", from |-> <<>>, to |-> [x |-> R(4)],
                   duration |-> 1, ease |-> "linear", delay |-> 0, at |-> 0],
                  [layerId |-> "ghost", from |-> <<>>, to |-> [x |-> R(1)],
                   duration |-> 1, ease |-> "linear", delay |-> 0, at |-> 0]>>],
     [fallback |-> TRUE, steps |-> <<>>]}

\* what the rendering surface writes into its copy of the state map
DomEdits ==
    {[layer |-> "root", field |-> "rotation", value |-> R(999)],
     [layer |-> "leaf", field |-> "z", value |-> R(-300)]}

\* the tail of set_layer_state, animate_layer and timeline: the store and the
\* engine are as the run left them and _touch_state runs, unless the run
\* raised, in which case the exception passes through before _touch_state
CompleteRun(res, call) ==
    /\ Install(res.store)
    /\ InstallEngine(res.engine)
    /\ IF res.raised THEN UNCHANGED <<dom_layers, state_version, cache_state>>
       ELSE TouchState(res.store)
    /\ UNCHANGED <<layer_map_full, compile_manifest>>
    /\ Record([call EXCEPT !.ok = ~res.raised, !.runId = res.runId])

\* the body of RuntimeService.set_layer_state, shared by the callers that
\* wrap it (set_layer_depth, set_effect_layer, set_jitter, set_origin)
DoSetLayerStateAs(base, op, layer_id, props) ==
    IF layer_id \notin LayerIds(layer_map_full)
    THEN /\ UNCHANGED <<storeVars, serviceVars, engineVars>>
         /\ Record([base EXCEPT !.op = op, !.ok = FALSE, !.layer = layer_id,
                                !.props = props, !.pre = Store])
    ELSE CompleteRun(RunSet(Store, Engine, layer_id,
                            ClampProps(layer_map_full, layer_id, props), now),
                     [base EXCEPT !.op = op, !.layer = layer_id, !.props = props,
                                  !.applied = ClampProps(layer_map_full, layer_id, props),
                                  !.pre = Store])

\* RuntimeService.set_layer_state called directly, without a tool context
DoSetLayerState(op, layer_id, props) == DoSetLayerStateAs(NoCall, op, layer_id, props)

\* RuntimeService.set_layer_state(layer_id, props); every compiled layer has
\* the capabilities move, scale, rotate, opacity and depth
SetLayerState ==
    \E call \in ServiceSetCalls :
        /\ now <= MaxCalls
        /\ now' = now + 1
        /\ DoSetLayerState("set_layer_state", call.layer, call.props)

\* RuntimeService.set_layer_state with props that may hold a value that is no
\* number or a key that is not tracked
SetLayerStateAnyProps ==
    \E call \in ServiceSetCalls \cup RaisingSetCalls \cup UntrackedSetCalls :
        /\ now <= MaxCalls
        /\ now' = now + 1
        /\ DoSetLayerState("set_layer_state", call.layer, call.props)

\* RuntimeService.set_layer_depth(layer_id, z)
SetLayerDepth ==
    \E call \in DepthCalls :
        /\ now <= MaxCalls
        /\ now' = now + 1
        /\ DoSetLayerState("set_layer_depth", call.layer, [z |-> call.z])

\* the duration 0.2 that a fallback run records
FallbackDuration == <<1, 5>>

\* the tail of animate_layer: what run_animate returned is the response
CompleteAnimate(res, call) ==
    CompleteRun(res, [call EXCEPT !.output = res.plannedEndState])

\* the body of RuntimeService.animate_layer, shared with animate_layer_depth
DoAnimateLayerAs(base, op, layer_id, from_props, to_props, duration, ease, delay, fallback) ==
    IF layer_id \notin LayerIds(layer_map_full)
    THEN /\ UNCHANGED <<storeVars, serviceVars, engineVars>>
         /\ Record([base EXCEPT !.op = op, !.ok = FALSE, !.layer = layer_id,
                                !.props = to_props, !.pre = Store])
    ELSE LET target_to == IF fallback THEN [x |-> R(0), y |-> R(0)] ELSE to_props
             target_from == IF fallback THEN <<>> ELSE from_props
             clamped_from == ClampProps(layer_map_full, layer_id, target_from)
             clamped_to == ClampProps(layer_map_full, layer_id, target_to)
         IN  CompleteAnimate(
                 RunAnimate(Store, Engine, layer_id, clamped_from, clamped_to,
                            IF fallback THEN FallbackDuration ELSE duration,
                            IF fallback THEN "power1.out" ELSE ease,
                            IF fallback THEN 0 ELSE delay, now),
                 [base EXCEPT !.op = op, !.layer = layer_id,
                              !.props = to_props, !.applied = clamped_to,
                              !.input = [from |-> clamped_from,
                                         duration |-> duration, ease |-> ease,
                                         delay |-> delay],
                              !.pre = Store])

\* RuntimeService.animate_layer called directly, without a tool context
DoAnimateLayer(op, layer_id, from_props, to_props, duration, ease, delay, fallback) ==
    DoAnimateLayerAs(NoCall, op, layer_id, from_props, to_props, duration, ease, delay,
                     fallback)

\* RuntimeService.animate_layer
AnimateLayer ==
    \E call \in AnimateCalls :
        /\ now <= MaxCalls
        /\ now' = now + 1
        /\ DoAnimateLayer("animate_layer", call.layer, call.from, call.to,
                          call.duration, call.ease, call.delay, call.fallback)

\* an animate_layer call whose "to" props hold a key the store does not
\* track; the request model types "to" as Dict[str, float]
UntrackedAnimateCalls ==
    {[layer |-> "leaf", from |-> [x |-> R(1)], to |-> [x |-> R(3), bogus |-> R(1)],
      duration |-> 3, ease |-> "power2.out", delay |-> 2, fallback |-> FALSE]}

\* RuntimeService.animate_layer with "to" props that may hold a key that is
\* not tracked
AnimateLayerAnyProps ==
    \E call \in AnimateCalls \cup UntrackedAnimateCalls :
        /\ now <= MaxCalls
        /\ now' = now + 1
        /\ DoAnimateLayer("animate_layer", call.layer, call.from, call.to,
                          call.duration, call.ease, call.delay, call.fallback)

\* RuntimeService.animate_layer_depth; from is <<>> for None, else <<depth>>
AnimateLayerDepth ==
    \E call \in AnimateDepthCalls :
        /\ now <= MaxCalls
        /\ now' = now + 1
        /\ DoAnimateLayer("animate_layer_depth", call.layer,
                          IF call.from = <<>> THEN <<>> ELSE [z |-> call.from[1]],
                          [z |-> call.to], call.duration, call.ease, 0, call.fallback)

\* the steps of RuntimeService.timeline after the checks and the clamping
NormalizedSteps(layers, steps, fallback) ==
    IF fallback
    THEN <<[layerId |-> layers[1].id, from |-> <<>>, to |-> [x |-> R(0), y |-> R(0)],
            duration |-> FallbackDuration, ease |-> "power1.out", delay |-> 0,
            at |-> None]>>
    ELSE [i \in 1..Len(steps) |->
            [steps[i] EXCEPT !.from = ClampProps(layers, steps[i].layerId, @),
                             !.to = ClampProps(layers, steps[i].layerId, @)]]

\* a timeline that checks each step only when its turn comes: the steps
\* before the first one that fails the check are applied to the store
DoTimelineCheckingStepByStep(base, steps, fallback) ==
    IF ~fallback /\ \E i \in 1..Len(steps) : steps[i].layerId \notin LayerIds(layer_map_full)
    THEN LET first == CHOOSE i \in 1..Len(steps) :
                          /\ steps[i].layerId \notin LayerIds(layer_map_full)
                          /\ \A j \in 1..(i - 1) : steps[j].layerId \in LayerIds(layer_map_full)
         IN  /\ Install(TimelineLoop(Store,
                                     NormalizedSteps(layer_map_full,
                                                     SubSeq(steps, 1, first - 1), FALSE),
                                     now).store)
             /\ UNCHANGED <<serviceVars, engineVars>>
             /\ Record([base EXCEPT !.op = "timeline", !.ok = FALSE,
                                    !.changes = steps, !.pre = Store])
    ELSE CompleteRun(
             RunTimeline(Store, Engine, NormalizedSteps(layer_map_full, steps, fallback),
                         now),
             [base EXCEPT !.op = "timeline",
                          !.changes = NormalizedSteps(layer_map_full, steps, fallback),
                          !.pre = Store])

\* the body of RuntimeService.timeline(steps, fallback)
DoTimelineAs(base, steps, fallback) ==
    IF ~fallback /\ \E i \in 1..Len(steps) : steps[i].layerId \notin LayerIds(layer_map_full)
    THEN /\ UNCHANGED <<storeVars, serviceVars, engineVars>>
         /\ Record([base EXCEPT !.op = "timeline", !.ok = FALSE,
                                !.changes = steps, !.pre = Store])
    ELSE CompleteRun(
             RunTimeline(Store, Engine, NormalizedSteps(layer_map_full, steps, fallback),
                         now),
             [base EXCEPT !.op = "timeline",
                          !.changes = NormalizedSteps(layer_map_full, steps, fallback),
                          !.pre = Store])

\* RuntimeService.timeline(steps, fallback)
Timeline ==
    \E call \in TimelineCalls :
        /\ now <= MaxCalls
        /\ now' = now + 1
        /\ DoTimelineAs(NoCall, call.steps, call.fallback)

\* RuntimeService.reconcile(dry_run)
ServiceReconcile ==
    \E dry_run \in BOOLEAN :
        LET res == ReconcileWithDom(Store, dom_layers, "dom", dry_run, now)
        IN  /\ now <= MaxCalls
            /\ now' = now + 1
            /\ Install(res.store)
            /\ IF dry_run
               THEN UNCHANGED <<dom_layers, state_version, cache_state>>
               ELSE TouchState(res.store)
            /\ UNCHANGED <<layer_map_full, compile_manifest, engineVars>>
            /\ Record([NoCall EXCEPT !.op = "service_reconcile", !.dom = dom_layers,
                                     !.prefer = "dom", !.dry_run = dry_run,
                                     !.changed_layer_ids = res.changed_layer_ids,
                                     !.dom_patch = res.dom_patch, !.pre = Store])

\* RuntimeService.undo()
ServiceUndo ==
    /\ state_version < MaxVersion
    /\ Install(StoreUndo(Store))
    /\ IF history # <<>> THEN TouchState(StoreUndo(Store))
       ELSE UNCHANGED <<dom_layers, state_version, cache_state>>
    /\ UNCHANGED <<layer_map_full, compile_manifest, engineVars, now>>
    /\ Record([NoCall EXCEPT !.op = "service_undo", !.ok = (history # <<>>),
                             !.pre = Store])

\* RuntimeService.redo()
ServiceRedo ==
    /\ state_version < MaxVersion
    /\ Install(StoreRedo(Store))
    /\ IF future # <<>> THEN TouchState(StoreRedo(Store))
       ELSE UNCHANGED <<dom_layers, state_version, cache_state>>
    /\ UNCHANGED <<layer_map_full, compile_manifest, engineVars, now>>
    /\ Record([NoCall EXCEPT !.op = "service_redo", !.ok = (future # <<>>),
                             !.pre = Store])

\* the layerIds of the get_layer_state requests that the model issues: none
\* (all layers), two ids, and one id that reads like the two ids joined
StateRequests == {<<>>, <<"root", "leaf">>, <<"leaf,root">>}

\* the order of str on the ids of the requests
IdRank == ("grp" :> 1) @@ ("leaf" :> 2) @@ ("leaf,root" :> 3) @@ ("root" :> 4)

\* sorted(layer_ids)
SortedIds(layer_ids) == SortSeq(layer_ids, LAMBDA a, b : IdRank[a] < IdRank[b])

RECURSIVE JoinIds(_)
\* ",".join(ids)
JoinIds(ids) ==
    IF ids = <<>> THEN ""
    ELSE IF Len(ids) = 1 THEN Head(ids)
    ELSE Head(ids) \o "," \o JoinIds(Tail(ids))

\* the key of get_layer_state in cache_state: the text between "state:" and
\* ":v", and the state version
CacheKey(layer_ids, version) ==
    <<IF layer_ids = <<>> THEN "*" ELSE JoinIds(SortedIds(layer_ids)), version>>

\* StateStore.export_layer_state_document narrowed to the requested layers;
\* the states the model reaches pass LayerStateDocument unchanged
StateDocument(S, layer_ids, t) ==
    [schemaVersion |-> "1.0", timestamp |-> t,
     layers |-> IF layer_ids = <<>> THEN S.current
                ELSE [id \in {layer_ids[i] : i \in 1..Len(layer_ids)} \cap DOMAIN S.current |->
                         S.current[id]]]

\* what get_layer_state returns: the cached document when the key is cached
GetLayerStateReturns(cache, S, layer_ids, version, t) ==
    IF CacheKey(layer_ids, version) \in DOMAIN cache
    THEN cache[CacheKey(layer_ids, version)]
    ELSE StateDocument(S, layer_ids, t)

\* RuntimeService.get_layer_state(layer_ids)
ServiceGetLayerState ==
    \E layer_ids \in StateRequests :
        /\ cache_state' = Put(cache_state, CacheKey(layer_ids, state_version),
                              GetLayerStateReturns(cache_state, Store, layer_ids,
                                                   state_version, now))
        /\ UNCHANGED <<storeVars, layer_map_full, compile_manifest, dom_layers, state_version,
                       engineVars, now>>
        /\ Record([NoCall EXCEPT
                       !.op = "service_get_layer_state",
                       !.input = [layerIds |-> layer_ids,
                                  hit |-> CacheKey(layer_ids, state_version)
                                             \in DOMAIN cache_state],
                       !.output = GetLayerStateReturns(cache_state, Store, layer_ids,
                                                       state_version, now),
                       !.pre = Store])

\* the rendering surface changes a field of its copy of a layer's state
\* (tests/test_phase8_hardening.py: runtime.dom_layers["caption"]["x"] = 77)
DomMutate ==
    \E edit \in DomEdits :
        /\ edit.layer \in DOMAIN dom_layers
        /\ dom_layers[edit.layer][edit.field] # edit.value
        /\ dom_layers' = [dom_layers EXCEPT ![edit.layer][edit.field] = edit.value]
        /\ UNCHANGED <<storeVars, layer_map_full, compile_manifest, state_version, cache_state,
                       engineVars, now>>
        /\ Record([NoCall EXCEPT !.op = "dom_mutate", !.layer = edit.layer,
                                 !.pre = Store])

\* engine.cancel_run(run_id) for every id the engine has issued, whether the
\* run is active, completed or cancelled, and for the id it would issue next
EngineCancelRun ==
    \E run_id \in 1..(counter + 1) :
        /\ InstallEngine(CancelRun(Engine, run_id, now))
        /\ UNCHANGED <<storeVars, serviceVars, now>>
        /\ Record([NoCall EXCEPT !.op = "cancel_run", !.runId = run_id,
                                 !.ok = CancelRunReturns(Engine, run_id),
                                 !.pre = Store])

\* the source texts handed to compile_svg
ServiceTexts == {"nested", "nested, reindented", "twins", "broken"}

\* the layer rows of the full layer map that compile builds from a text that
\* parses
CompiledDocument(svg_text) == IF svg_text = "twins" THEN DocTwins ELSE DocNested

\* whether compile_svg returns before it compiles: needs_recompile, asked
\* with the manifest of the service (None when it is empty), says no and both
\* layer maps are there; the layer maps are set together with the manifest
KeepsCompilation(svg_text, force, compiler_version) ==
    /\ ~NeedsRecompile(svg_text, compile_manifest, force, compiler_version).required
    /\ layer_map_full # <<>>

\* a compile_svg that builds a new store over the engine it already has
DoCompileSvgKeepingEngine(svg_text, force, compiler_version) ==
    IF KeepsCompilation(svg_text, force, compiler_version)
    THEN /\ UNCHANGED <<storeVars, serviceVars, engineVars, now>>
         /\ Record([NoCall EXCEPT
                       !.op = "compile_svg",
                       !.input = [svg_text |-> svg_text, force |-> force,
                                  compiler_version |-> compiler_version],
                       !.output = [compiled |-> FALSE], !.pre = Store])
    ELSE IF ~Parses(svg_text)
    THEN /\ UNCHANGED <<storeVars, serviceVars, engineVars, now>>
         /\ Record([NoCall EXCEPT
                       !.op = "compile_svg", !.ok = FALSE,
                       !.input = [svg_text |-> svg_text, force |-> force,
                                  compiler_version |-> compiler_version],
                       !.output = [compiled |-> FALSE], !.pre = Store])
    ELSE /\ now <= MaxCalls
         /\ now' = now + 1
         /\ layer_map_full' = CompiledDocument(svg_text)
         /\ compile_manifest' = Compile(svg_text, compiler_version, now).compile_manifest
         /\ Install(FromLayerMapFull(CompiledDocument(svg_text), EmptyStore, now))
         /\ UNCHANGED engineVars
         /\ dom_layers' = FromLayerMapFull(CompiledDocument(svg_text), EmptyStore, now).current
         /\ state_version' = 0
         /\ cache_state' = <<>>
         /\ Record([NoCall EXCEPT
                       !.op = "compile_svg",
                       !.input = [svg_text |-> svg_text, force |-> force,
                                  compiler_version |-> compiler_version],
                       !.output = [compiled |-> TRUE], !.pre = Store])

\* the body of RuntimeService.compile_svg of a service whose compiler has the
\* given version: an early return changes nothing, a text that does not parse
\* raises inside compile before anything is assigned, and otherwise the maps,
\* the manifest, the store, the engine, dom_layers, the version and the
\* caches are replaced
DoCompileSvg(svg_text, force, compiler_version) ==
    IF KeepsCompilation(svg_text, force, compiler_version)
    THEN /\ UNCHANGED <<storeVars, serviceVars, engineVars, now>>
         /\ Record([NoCall EXCEPT
                       !.op = "compile_svg",
                       !.input = [svg_text |-> svg_text, force |-> force,
                                  compiler_version |-> compiler_version],
                       !.output = [compiled |-> FALSE], !.pre = Store])
    ELSE IF ~Parses(svg_text)
    THEN /\ UNCHANGED <<storeVars, serviceVars, engineVars, now>>
         /\ Record([NoCall EXCEPT
                       !.op = "compile_svg", !.ok = FALSE,
                       !.input = [svg_text |-> svg_text, force |-> force,
                                  compiler_version |-> compiler_version],
                       !.output = [compiled |-> FALSE], !.pre = Store])
    ELSE /\ now <= MaxCalls
         /\ now' = now + 1
         /\ layer_map_full' = CompiledDocument(svg_text)
         /\ compile_manifest' = Compile(svg_text, compiler_version, now).compile_manifest
         /\ Install(FromLayerMapFull(CompiledDocument(svg_text), EmptyStore, now))
         /\ InstallEngine([counter |-> 0, active_runs |-> <<>>, completed_runs |-> <<>>])
         /\ dom_layers' = FromLayerMapFull(CompiledDocument(svg_text), EmptyStore, now).current
         /\ state_version' = 0
         /\ cache_state' = <<>>
         /\ Record([NoCall EXCEPT
                       !.op = "compile_svg",
                       !.input = [svg_text |-> svg_text, force |-> force,
                                  compiler_version |-> compiler_version],
                       !.output = [compiled |-> TRUE], !.pre = Store])

\* RuntimeService.compile_svg(svg_text, force); the compiler of the service is
\* a field that can be given a compiler of another version between the calls
ServiceCompileSvg ==
    \E svg_text \in ServiceTexts, force \in BOOLEAN,
       compiler_version \in CompilerVersions :
        DoCompileSvg(svg_text, force, compiler_version)

\* the service under writes, undo and compilations
NextCompileSvg ==
    \/ SetLayerState
    \/ ServiceUndo
    \/ ServiceCompileSvg

SpecCompileSvg == InitNested /\ [][NextCompileSvg]_vars

\* the largest limit of the list_layers calls that the model issues
MaxLimit == 3

\* the largest number that the model reads out of a cursor
MaxOffset == 99

DecimalDigits == <<"0", "1", "2", "3", "4", "5", "6", "7", "8", "9">>

\* str(n) of a natural number
RECURSIVE Str(_)
Str(n) ==
    IF n < 10 THEN DecimalDigits[n + 1]
    ELSE Str(n \div 10) \o DecimalDigits[(n % 10) + 1]

\* cursor.isdigit() of a string of the model
IsDigit(cursor) == \E n \in 0..MaxOffset : Str(n) = cursor

\* int(cursor) of a string of digits
IntOf(cursor) == CHOOSE n \in 0..MaxOffset : Str(n) = cursor

\* the offset that list_layers reads out of its cursor; an optional string is
\* <<>> for None and <<s>> for the string s
OffsetOf(cursor) ==
    IF IsDigit(IF cursor = None THEN "0" ELSE cursor[1])
    THEN IntOf(IF cursor = None THEN "0" ELSE cursor[1])
    ELSE 0

\* the filters of the list_layers calls that the model issues: none, and by
\* type with two, one or no matching layer
ListFilters == {<<>>, [type |-> "shape"], [type |-> "group"], [type |-> "image"]}

\* _match inside list_layers for a filter by type; the rows of the model
\* carry neither tags, capabilities, labels nor aliases
Match(layer_filter, layer) ==
    "type" \in DOMAIN layer_filter => layer.type = layer_filter.type

\* items after the filter: the rows that match, in the order of the map
RECURSIVE Matching(_, _)
Matching(layer_filter, items) ==
    IF items = <<>> THEN <<>>
    ELSE IF Match(layer_filter, Head(items))
    THEN <<Head(items)>> \o Matching(layer_filter, Tail(items))
    ELSE Matching(layer_filter, Tail(items))

\* the min layer map of the service: the one compiled together with its
\* manifest
ServiceLayerMapMin ==
    Compile(CHOOSE svg_text \in ServiceTexts :
                SourceChecksum(svg_text) = compile_manifest.sourceChecksum,
            compile_manifest.compilerVersion,
            compile_manifest.generatedAt).layer_map_min

\* the page cut out of the filtered items and the cursor behind it
PageOf(items, offset, limit) ==
    [items |-> SubSeq(items, offset + 1,
                      IF offset + limit < Len(items) THEN offset + limit
                      ELSE Len(items)),
     nextCursor |-> IF offset + limit < Len(items) THEN <<Str(offset + limit)>>
                    ELSE None]

\* a list_layers whose page starts with the item before the cursor
ListLayersFromItemBefore(layer_map_min, layer_filter, limit, cursor) ==
    PageOf(Matching(layer_filter, layer_map_min.layers),
           IF OffsetOf(cursor) > 0 THEN OffsetOf(cursor) - 1 ELSE 0, limit)

\* RuntimeService.list_layers(layer_filter, limit, cursor)
ListLayers(layer_map_min, layer_filter, limit, cursor) ==
    PageOf(Matching(layer_filter, layer_map_min.layers), OffsetOf(cursor), limit)

\* list_layers called without a cursor: the first page of a paging; the call
\* record keeps the number of the page and the items of all pages so far
ListLayersFirst ==
    \E layer_filter \in ListFilters, limit \in 1..MaxLimit :
        /\ UNCHANGED <<storeVars, serviceVars, engineVars, now>>
        /\ Record([NoCall EXCEPT
                      !.op = "service_list_layers",
                      !.limit = limit,
                      !.input = [filter |-> layer_filter, cursor |-> None,
                                 page |-> 1, before |-> <<>>],
                      !.output = ListLayers(ServiceLayerMapMin, layer_filter,
                                            limit, None),
                      !.pre = Store])

\* list_layers called with the filter and the limit of the call before and
\* with the cursor that this call returned
ListLayersNext ==
    /\ ret.op = "service_list_layers"
    /\ ret.output.nextCursor # None
    /\ UNCHANGED <<storeVars, serviceVars, engineVars, now>>
    /\ Record([NoCall EXCEPT
                  !.op = "service_list_layers",
                  !.limit = ret.limit,
                  !.input = [filter |-> ret.input.filter,
                             cursor |-> ret.output.nextCursor,
                             page |-> ret.input.page + 1,
                             before |-> ret.input.before \o ret.output.items],
                  !.output = ListLayers(ServiceLayerMapMin, ret.input.filter,
                                        ret.limit, ret.output.nextCursor),
                  !.pre = Store])

\* the service under compilations and pagings through its layers
NextPaging ==
    \/ ServiceCompileSvg
    \/ ListLayersFirst
    \/ ListLayersNext

SpecPaging == Init /\ [][NextPaging]_vars

NextService ==
    \/ SetLayerState
    \/ SetLayerDepth
    \/ AnimateLayer
    \/ AnimateLayerDepth
    \/ Timeline
    \/ ServiceReconcile
    \/ ServiceUndo
    \/ ServiceRedo
    \/ DomMutate

SpecService == InitNested /\ [][NextService]_vars

\* the service under writes, undo and redo, and reads through the cache
NextCache ==
    \/ SetLayerState
    \/ ServiceUndo
    \/ ServiceRedo
    \/ ServiceGetLayerState

SpecCache == InitNested /\ [][NextCache]_vars

\* the service and its engine under calls that start runs, some of which
\* raise inside the store, and under cancel_run
NextRuns ==
    \/ SetLayerStateAnyProps
    \/ AnimateLayerAnyProps
    \/ Timeline
    \/ EngineCancelRun

SpecRuns == InitNested /\ [][NextRuns]_vars

\* ------------------------------------------------------------------------
\* api/tools.py and services/config.py
\* ------------------------------------------------------------------------

MAX_SUBCALLS_PER_REQUEST == 12
MAX_RECURSIVE_DEPTH == 4
MAX_LIST_LAYERS_LIMIT == 100

\* a fallback set that leaves out the depth animation
FallbackToolsWithoutDepth == {"animate_layer", "timeline"}

\* the tools for which dispatch_tool turns on the fallback mode of the
\* context when the sub-call budget is used up
FALLBACK_TOOLS == {"animate_layer", "timeline", "animate_layer_depth"}

\* a ToolContext whose sub-calls are used up
UsedUp == [NoContext EXCEPT !.subcalls = MAX_SUBCALLS_PER_REQUEST]

\* what callers hand to dispatch_tool besides the tool's arguments: a
\* ToolContext and a payload that passes the request model or does not. The
\* contexts are one with a single sub-call left and, with the sub-calls used
\* up, one inside the other budgets, one past the depth budget and one past
\* the time budget; timed_out stands for the comparison of the clock with
\* started_at_ms
DispatchInputs ==
    {[ctx |-> [NoContext EXCEPT !.subcalls = MAX_SUBCALLS_PER_REQUEST - 1],
      valid |-> TRUE],
     [ctx |-> UsedUp, valid |-> TRUE],
     [ctx |-> UsedUp, valid |-> FALSE],
     [ctx |-> [UsedUp EXCEPT !.recursive_depth = MAX_RECURSIVE_DEPTH + 1], valid |-> TRUE],
     [ctx |-> [UsedUp EXCEPT !.timed_out = TRUE], valid |-> TRUE]}

\* the set_layer_state calls made through dispatch_tool: one on an unknown
\* layer, one on a group, and one whose props hold a value that is no number
DispatchSetCalls ==
    {call \in ServiceSetCalls :
        call.layer = "ghost" \/ (call.layer = "grp" /\ "x" \in DOMAIN call.props)}
    \cup {call \in RaisingSetCalls : call.layer = "leaf"}

\* _enforce_context_budgets: the error code, "" for none
BudgetError(ctx) ==
    IF ctx.recursive_depth > MAX_RECURSIVE_DEPTH THEN "RECURSION_LIMIT_EXCEEDED"
    ELSE IF ctx.timed_out THEN "TOOL_TIMEOUT"
    ELSE ""

\* the sub-call check of dispatch_tool, on the context that already counts
\* the call being made
SubcallsExceeded(ctx) == ctx.subcalls > MAX_SUBCALLS_PER_REQUEST

\* the error code with which dispatch_tool returns before it reaches the
\* handler, "" when it reaches it; ctx already counts the call, valid says
\* whether the payload passes the request model, limit is the limit of a
\* list_layers request (0 for the other tools)
Rejection(tool_name, ctx, valid, limit) ==
    IF BudgetError(ctx) # "" THEN BudgetError(ctx)
    ELSE IF ~valid THEN "VALIDATION_ERROR"
    ELSE IF tool_name = "list_layers" /\ limit > MAX_LIST_LAYERS_LIMIT
    THEN "LIST_LIMIT_EXCEEDED"
    ELSE IF SubcallsExceeded(ctx) /\ tool_name \notin FALLBACK_TOOLS
    THEN "SUBCALL_LIMIT_EXCEEDED"
    ELSE ""

\* the context as dispatch_tool leaves it: the call is counted, and fallback
\* mode is on when a fallback tool got past the checks with the budget used up
Entered(tool_name, ctx, valid) ==
    [ctx EXCEPT !.subcalls = @ + 1,
                !.fallback_mode =
                    \/ @
                    \/ /\ BudgetError(ctx) = ""
                       /\ valid
                       /\ tool_name \in FALLBACK_TOOLS
                       /\ SubcallsExceeded([ctx EXCEPT !.subcalls = @ + 1])]

\* the error code of the response of a dispatched call, "" for a success: a
\* handler that raises is answered with CONSTRAINT_VIOLATION
ResponseCode(call) ==
    IF call.rejected # "" THEN call.rejected
    ELSE IF call.ok THEN ""
    ELSE "CONSTRAINT_VIOLATION"

\* dispatch_tool returning an error before the handler is reached; layer_id
\* is the layerId of the request, "" for a request without one
Reject(tool_name, ctx, valid, limit, layer_id, code) ==
    /\ UNCHANGED <<storeVars, serviceVars, engineVars>>
    /\ Record([NoCall EXCEPT !.op = tool_name, !.ok = FALSE, !.ctx = ctx,
                             !.valid = valid, !.limit = limit, !.layer = layer_id,
                             !.rejected = code, !.pre = Store])

\* the record of a call that dispatch_tool hands to its handler
Accepted(tool_name, input) ==
    [NoCall EXCEPT !.ctx = Entered(tool_name, input.ctx, input.valid)]

\* dispatch_tool for a tool of TOOL_MODELS: the checks before the handler,
\* then the handler; limit is the limit of a list_layers request and layer_id
\* the layerId of the request, 0 and "" for a request without one
DispatchTool(tool_name, input, limit, layer_id, handler) ==
    /\ now <= MaxCalls
    /\ now' = now + 1
    /\ IF Rejection(tool_name, Entered(tool_name, input.ctx, input.valid),
                    input.valid, limit) # ""
       THEN Reject(tool_name, Entered(tool_name, input.ctx, input.valid), input.valid,
                   limit, layer_id,
                   Rejection(tool_name, Entered(tool_name, input.ctx, input.valid),
                             input.valid, limit))
       ELSE handler

\* dispatch_tool("animate_layer", ...)
DispatchAnimateLayer ==
    \E call \in AnimateCalls, input \in DispatchInputs :
        DispatchTool("animate_layer", input, 0, call.layer,
                     DoAnimateLayerAs(Accepted("animate_layer", input), "animate_layer",
                                      call.layer, call.from, call.to, call.duration,
                                      call.ease, call.delay,
                                      Accepted("animate_layer", input).ctx.fallback_mode))

\* the animate_layer_depth calls made through dispatch_tool
DispatchDepthCalls ==
    AnimateDepthCalls
    \cup {[layer |-> "ghost", from |-> <<>>, to |-> R(1), duration |-> 1,
           ease |-> "linear", fallback |-> FALSE]}

\* dispatch_tool("animate_layer_depth", ...)
DispatchAnimateLayerDepth ==
    \E call \in DispatchDepthCalls, input \in DispatchInputs :
        DispatchTool("animate_layer_depth", input, 0, call.layer,
                     DoAnimateLayerAs(Accepted("animate_layer_depth", input),
                                      "animate_layer_depth", call.layer,
                                      IF call.from = <<>> THEN <<>>
                                      ELSE [z |-> call.from[1]],
                                      [z |-> call.to], call.duration, call.ease, 0,
                                      Accepted("animate_layer_depth",
                                               input).ctx.fallback_mode))

\* dispatch_tool("timeline", ...); the request model wants at least one step
DispatchTimeline ==
    \E call \in {c \in TimelineCalls : c.steps # <<>>}, input \in DispatchInputs :
        DispatchTool("timeline", input, 0, "",
                     DoTimelineAs(Accepted("timeline", input), call.steps,
                                  Accepted("timeline", input).ctx.fallback_mode))

\* dispatch_tool("set_layer_state", ...)
DispatchSetLayerState ==
    \E call \in DispatchSetCalls, input \in DispatchInputs :
        DispatchTool("set_layer_state", input, 0, call.layer,
                     DoSetLayerStateAs(Accepted("set_layer_state", input),
                                       "set_layer_state", call.layer, call.props))

\* dispatch_tool("list_layers", ...); RuntimeService.list_layers reads the
\* min map and writes nothing
DispatchListLayers ==
    \E limit \in {25, MAX_LIST_LAYERS_LIMIT + 1}, input \in DispatchInputs :
        DispatchTool("list_layers", input, limit, "",
                     /\ UNCHANGED <<storeVars, serviceVars, engineVars>>
                     /\ Record([Accepted("list_layers", input) EXCEPT
                                    !.op = "list_layers", !.limit = limit,
                                    !.pre = Store]))

\* dispatch_tool with a name that is not in TOOL_MODELS: it returns before
\* the context is touched
DispatchUnknownTool ==
    /\ now <= MaxCalls
    /\ now' = now + 1
    /\ Reject("no_such_tool", UsedUp, TRUE, 0, "", "UNKNOWN_TOOL")

\* the tools called through dispatch_tool, each call with a context of its own
NextDispatch ==
    \/ DispatchAnimateLayer
    \/ DispatchAnimateLayerDepth
    \/ DispatchTimeline
    \/ DispatchSetLayerState
    \/ DispatchListLayers
    \/ DispatchUnknownTool

SpecDispatch == InitNested /\ [][NextDispatch]_vars

\* ------------------------------------------------------------------------
\* compiler/layer_compiler.py: the compiler called on its own
\* ------------------------------------------------------------------------

\* compiler.compile(svg_text); a text that does not parse raises
CompileSvg ==
    \E svg_text \in SourceTexts, compiler_version \in CompilerVersions :
        /\ now <= MaxCalls
        /\ now' = now + 1
        /\ UNCHANGED <<storeVars, serviceVars, engineVars>>
        /\ Record([NoCall EXCEPT
                      !.op = "compile", !.ok = Parses(svg_text),
                      !.input = [svg_text |-> svg_text,
                                 compiler_version |-> compiler_version],
                      !.output = IF Parses(svg_text)
                                 THEN Compile(svg_text, compiler_version, now)
                                 ELSE <<>>,
                      !.pre = Store])

\* the compiler called on its own
SpecCompiler == InitNested /\ [][CompileSvg]_vars

\* the texts whose recompilation is asked about
RecompileTexts == {"nested", "nested, reindented"}

\* the previous manifests handed to needs_recompile: none, the manifests of
\* earlier compilations of the texts by either version, and two manifests
\* that lack a key
PreviousManifests ==
    <<<<>>,
      Compile("nested", "0.1.0", 0).compile_manifest,
      Compile("nested", "0.2.0", 0).compile_manifest,
      Compile("nested, reindented", "0.1.0", 0).compile_manifest,
      Compile("nested, reindented", "0.2.0", 0).compile_manifest,
      [schemaVersion |-> "1.0", compilerVersion |-> "0.1.0"],
      [schemaVersion |-> "1.0", sourceChecksum |-> SourceChecksum("nested")]>>

\* compiler.needs_recompile(svg_text, previous_manifest, manual_recompile)
NeedsRecompileCall ==
    \E svg_text \in RecompileTexts, compiler_version \in CompilerVersions,
       manual_recompile \in BOOLEAN, i \in 1..Len(PreviousManifests) :
        /\ UNCHANGED <<storeVars, serviceVars, engineVars, now>>
        /\ Record([NoCall EXCEPT
                      !.op = "needs_recompile",
                      !.input = [svg_text |-> svg_text,
                                 compiler_version |-> compiler_version,
                                 previous_manifest |-> PreviousManifests[i],
                                 manual_recompile |-> manual_recompile],
                      !.output = NeedsRecompile(svg_text, PreviousManifests[i],
                                                manual_recompile, compiler_version),
                      !.pre = Store])

\* the recompilation check called on its own
SpecRecompile == InitNested /\ [][NeedsRecompileCall]_vars

\* ------------------------------------------------------------------------
\* Properties of the state store
\* ------------------------------------------------------------------------

\* the layers below layer_id in the layer tree, at every depth
RECURSIVE DescendantsFrom(_, _, _)
DescendantsFrom(tree, frontier, seen) ==
    LET kids == {tree[p][i] : <<p, i>> \in
                    {<<p, i>> \in (frontier \cap DOMAIN tree) \X (1..3) :
                        i <= Len(tree[p])}}
        new == kids \ seen
    IN  IF new = {} THEN seen ELSE DescendantsFrom(tree, new, seen \cup new)

Descendants(tree, layer_id) == DescendantsFrom(tree, {layer_id}, {})

\* C1: after N set calls, N consecutive undo calls each return true and leave
\* the state map equal to the state map before the first of those set calls
C1_UndoRestoresStateBeforeSets ==
    /\ ~set_run.failed
    /\ (set_run.n > 0 /\ set_run.m = set_run.n) => current = set_run.base

\* C2: after k successful undo calls, k redo calls each return true and
\* restore the state map to what it was before the first of those undo calls
C2_RedoRestoresStateBeforeUndos ==
    /\ ~undo_run.failed
    /\ (undo_run.n > 0 /\ undo_run.m = undo_run.n) => current = undo_run.base

C2_Witness == undo_run.n = 2 /\ undo_run.m = 2 /\ current # history[Len(history)]

\* C3: every set call pushes exactly one snapshot onto the undo stack and
\* empties the redo stack, whatever its props; a redo right after a set
\* returns false
C3_SetPushesOneSnapshotAndClearsRedo ==
    /\ ret.op = "set" =>
          /\ Len(history) = Len(ret.pre.history) + 1
          /\ SubSeq(history, 1, Len(history) - 1) = ret.pre.history
          /\ future = <<>>
    /\ (ret.op = "redo" /\ prev.op = "set") => ~ret.ok

C3_Witness ==
    /\ ret.op = "redo"
    /\ prev.op = "set"
    /\ prev.props = <<>>
    /\ prev.pre.future # <<>>

\* C4: batch_set pushes exactly one history snapshot for the whole batch, and
\* a single undo after the batch restores the state map before the batch
C4_BatchIsOneUndoStep ==
    /\ ret.op = "batch_set" => history = Append(ret.pre.history, ret.pre.current)
    /\ (ret.op = "undo" /\ prev.op = "batch_set") =>
          ret.ok /\ current = prev.pre.current

C4_Witness ==
    /\ ret.op = "undo"
    /\ prev.op = "batch_set"
    /\ Len(prev.changes) = 3
    /\ "ghost" \in DOMAIN ret.pre.current
    /\ "ghost" \notin DOMAIN current

\* C5: in every reachable state of the store every layer's opacity is within
\* [0, 1]
C5_OpacityInUnitInterval ==
    \A id \in DOMAIN current :
        RLe(R(0), current[id].opacity) /\ RLe(current[id].opacity, R(1))

C5_Witness ==
    /\ ret.op = "reconcile"
    /\ ret.prefer = "dom"
    /\ ~ret.dry_run
    /\ "root" \in ret.changed_layer_ids
    /\ ret.pre.current["root"].opacity = Half
    /\ current["root"].opacity = R(1)

\* C8: when set(parent, props, propagate=true) changes the parent by the
\* additive delta (dx, dy, drot, dz), every descendant of the parent has its
\* x, y, rotation and z changed by exactly that delta
C8_DescendantsMoveByParentDelta ==
    (ret.op = "set" /\ ret.propagate) =>
        \A d \in Descendants(layer_tree, ret.layer) :
            \A f \in ADDITIVE_FIELDS :
                current[d][f] =
                    RAdd(ret.pre.current[d][f],
                         RSub(current[ret.layer][f], ret.pre.current[ret.layer][f]))

\* C9: when set(parent, props, propagate=true) changes the parent's scale by
\* the ratio rs and its opacity by the ratio ro (1 when the old value is 0),
\* every descendant has its scale multiplied by rs and its opacity
\* multiplied by ro and clamped to [0, 1]
C9_DescendantsScaleByParentRatio ==
    (ret.op = "set" /\ ret.propagate) =>
        \A d \in Descendants(layer_tree, ret.layer) :
            LET delta == GroupDelta(ret.pre.current[ret.layer], current[ret.layer])
            IN  /\ current[d].scale = RMul(ret.pre.current[d].scale, delta.scale_ratio)
                /\ current[d].opacity =
                       ClampOpacity(RMul(ret.pre.current[d].opacity, delta.opacity_ratio))

\* C10: for a layer whose store status is locked, reconcile with preference
\* dom leaves the layer's store state unchanged, lists the layer among the
\* changed ids when a reconciled field differs, and returns a patch for it
\* that carries the store's value of every differing field
C10_LockedLayerKeepsStoreAuthority ==
    (ret.op = "reconcile" /\ ret.prefer = "dom") =>
        \A id \in DOMAIN ret.dom \cap DOMAIN ret.pre.current :
            ret.pre.current[id].status = "locked" =>
                LET differing == {f \in RECONCILE_FIELDS :
                                     ValuesDifferent(f, ret.pre.current[id], ret.dom[id])}
                IN  /\ current[id] = ret.pre.current[id]
                    /\ differing # {} =>
                          /\ id \in ret.changed_layer_ids
                          /\ id \in DOMAIN ret.dom_patch
                          /\ \A f \in differing :
                                /\ f \in DOMAIN ret.dom_patch[id]
                                /\ ret.dom_patch[id][f] = ret.pre.current[id][f]

\* C16: get_layer_state on a layer id the store does not know fails and
\* creates no state entry for the id
C16_ReadOfUnknownLayerFails ==
    (ret.op = "get_layer_state" /\ ret.layer \notin DOMAIN ret.pre.current) =>
        /\ ~ret.ok
        /\ ret.layer \notin DOMAIN current

\* C17: undo on an empty undo stack and redo on an empty redo stack return
\* false and leave the state map and both stacks as they were
C17_EmptyStackIsNoOp ==
    /\ (ret.op = "undo" /\ ret.pre.history = <<>>) =>
           (~ret.ok /\ current = ret.pre.current /\ history = <<>>
                    /\ future = ret.pre.future)
    /\ (ret.op = "redo" /\ ret.pre.future = <<>>) =>
           (~ret.ok /\ current = ret.pre.current /\ future = <<>>
                    /\ history = ret.pre.history)

C17_Witness ==
    /\ ret.op = "undo"
    /\ ret.pre.history = <<>>
    /\ ~ret.ok
    /\ Len(future) = 2
    /\ prev.op = "undo"
    /\ prev.ok

\* C18: in every reachable state every layer's status is idle, animating or
\* locked
C18_StatusIsOneOfThree ==
    \A id \in DOMAIN current : current[id].status \in {"idle", "animating", "locked"}

\* ------------------------------------------------------------------------
\* Properties of reconciliation
\* ------------------------------------------------------------------------

\* the layers a reconcile call looks at: those in the external snapshot that
\* the store knew before the call
Examined == DOMAIN ret.dom \cap DOMAIN ret.pre.current

\* the reconciled fields of a layer whose store value before the call differs
\* from the external value
Differing(id) ==
    {f \in RECONCILE_FIELDS : ValuesDifferent(f, ret.pre.current[id], ret.dom[id])}

\* C11: a reconcile with dryRun=true returns the changed ids that a live run
\* on the same store, snapshot and preference returns, and leaves the state
\* map, the undo stack and the redo stack as they were
C11_DryRunSameIdsAndNoMutation ==
    (ret.op = "reconcile" /\ ret.ok /\ ret.dry_run) =>
        /\ ret.changed_layer_ids =
               ReconcileWithDom(ret.pre, ret.dom, ret.prefer, FALSE, now).changed_layer_ids
        /\ current = ret.pre.current
        /\ history = ret.pre.history
        /\ future = ret.pre.future

C11_Witness ==
    /\ ret.op = "reconcile"
    /\ ret.dry_run
    /\ ret.prefer = "dom"
    /\ Cardinality(ret.changed_layer_ids) >= 2
    /\ ReconcileWithDom(ret.pre, ret.dom, ret.prefer, FALSE, now).store.current
           # ret.pre.current

\* C12: a reconcile with dryRun=true returns the patch for the external side
\* that a live run on the same store, snapshot and preference returns
C12_DryRunComputesPatch ==
    (ret.op = "reconcile" /\ ret.ok /\ ret.dry_run) =>
        ret.dom_patch =
            ReconcileWithDom(ret.pre, ret.dom, ret.prefer, FALSE, now).dom_patch

\* C13: after a live reconcile with preference dom, every layer that is not
\* locked has, for each reconciled field the external snapshot carries, the
\* external value (within the tolerance), and keeps its store value for the
\* reconciled fields the snapshot does not carry
C13_StoreAdoptsExternalValues ==
    (ret.op = "reconcile" /\ ret.ok /\ ~ret.dry_run /\ ret.prefer = "dom") =>
        \A id \in Examined :
            ret.pre.current[id].status # "locked" =>
                \A f \in RECONCILE_FIELDS :
                    IF f \in DOMAIN ret.dom[id]
                    THEN ~ValuesDifferent(f, current[id], ret.dom[id])
                    ELSE current[id][f] = ret.pre.current[id][f]

\* C13 as amended: the store holds the external value as the store
\* normalises it, that is with the opacity clamped to [0, 1]
C13_StoreAdoptsNormalizedExternalValues ==
    (ret.op = "reconcile" /\ ret.ok /\ ~ret.dry_run /\ ret.prefer = "dom") =>
        \A id \in Examined :
            ret.pre.current[id].status # "locked" =>
                LET external ==
                        [f \in DOMAIN ret.dom[id] |->
                            IF f = "opacity"
                            THEN RMax(R(0), RMin(R(1), ret.dom[id][f]))
                            ELSE ret.dom[id][f]]
                IN  \A f \in RECONCILE_FIELDS :
                        IF f \in DOMAIN external
                        THEN ~ValuesDifferent(f, current[id], external)
                        ELSE current[id][f] = ret.pre.current[id][f]

C13_Witness ==
    /\ ret.op = "reconcile"
    /\ ~ret.dry_run
    /\ ret.prefer = "dom"
    /\ "root" \in ret.changed_layer_ids
    /\ ret.dom["root"].opacity = R(5)
    /\ ret.pre.current["root"].rotation = R(5)
    /\ current["root"].rotation = R(999)
    /\ current["root"].opacity = R(1)

C15_InvalidPreferenceFails ==
    (ret.op = "reconcile" /\ ret.prefer \notin {"dom", "store"}) =>
        /\ ~ret.ok
        /\ ret.changed_layer_ids = {}
        /\ ret.dom_patch = <<>>
        /\ current = ret.pre.current
        /\ history = ret.pre.history
        /\ future = ret.pre.future

C15_Witness ==
    /\ ret.op = "reconcile"
    /\ ret.prefer = "auto"
    /\ ~ret.dry_run
    /\ history # <<>>
    /\ "leaf" \in Examined
    /\ Differing("leaf") # {}

\* ------------------------------------------------------------------------
\* Properties of the runtime service
\* ------------------------------------------------------------------------

\* C6: after any sequence of service operations every compiled layer's
\* rotation lies within [-maxRotation, +maxRotation] of its constraints
C6_RotationWithinConstraint ==
    \A id \in LayerIds(layer_map_full) \cap DOMAIN current :
        LET max_rotation == RAbs(LayerFullById(layer_map_full, id).constraints.maxRotation)
        IN  /\ RLe(RNeg(max_rotation), current[id].rotation)
            /\ RLe(current[id].rotation, max_rotation)

\* C7: after any sequence of service operations every compiled layer's depth
\* z lies within [minDepth, maxDepth] of its constraints
C7_DepthWithinConstraint ==
    \A id \in LayerIds(layer_map_full) \cap DOMAIN current :
        LET constraints == LayerFullById(layer_map_full, id).constraints
        IN  /\ RLe(constraints.minDepth, current[id].z)
            /\ RLe(current[id].z, constraints.maxDepth)

\* ------------------------------------------------------------------------
\* Properties of the run tracker
\* ------------------------------------------------------------------------

\* the calls of the service that start a run
RunOps ==
    {"set_layer_state", "set_layer_depth", "animate_layer", "animate_layer_depth",
     "timeline"}

\* the run ids the engine has issued
IssuedRunIds == DOMAIN active_runs \cup DOMAIN completed_runs

\* C19: when a call that started a run has returned, normally or by raising,
\* the run is in the completed log with status completed or cancelled and a
\* finish time, and no run is in the active set
C19_RunLeavesRunningBeforeReturn ==
    (ret.op \in RunOps /\ ret.runId # 0) =>
        /\ DOMAIN active_runs = {}
        /\ ret.runId \in DOMAIN completed_runs
        /\ completed_runs[ret.runId].status \in {"completed", "cancelled"}
        /\ completed_runs[ret.runId].finished_at # None

\* C20: every call that starts a run gets a run id greater than every id
\* issued before it, and the ids issued before stay issued
C20_RunIdsStrictlyIncrease ==
    [][(ret'.op \in RunOps /\ ret'.runId # 0 /\ now' # now) =>
          /\ \A id \in IssuedRunIds : ret'.runId > id
          /\ ret'.runId \in IssuedRunIds'
          /\ IssuedRunIds \subseteq IssuedRunIds']_vars

C20_Witness ==
    /\ ret.op = "timeline"
    /\ ret.ok
    /\ ret.runId = 2
    /\ 1 \in DOMAIN completed_runs
    /\ completed_runs[1].status = "cancelled"
    /\ completed_runs[2].status = "completed"

\* C21: cancel_run(id) returns true exactly when the run is in the active
\* set at the moment of the call, and then moves it to the ended runs as
\* cancelled; for a completed, an already cancelled or an unknown run it
\* returns false and leaves every run record as it was; in every case the
\* layer states and the undo and redo stacks stay as they were
C21_CancelOnlyActiveRuns ==
    [][ret'.op = "cancel_run" =>
          /\ ret'.ok <=> ret'.runId \in DOMAIN active_runs
          /\ ret'.ok =>
                /\ ret'.runId \notin DOMAIN active_runs'
                /\ ret'.runId \in DOMAIN completed_runs'
                /\ completed_runs'[ret'.runId].status = "cancelled"
          /\ ~ret'.ok => active_runs' = active_runs /\ completed_runs' = completed_runs
          /\ UNCHANGED storeVars]_vars

\* cancel_run has returned false for a run that an earlier cancel_run had
\* cancelled, after a set that left history behind it
C21_Witness ==
    /\ ret.op = "cancel_run"
    /\ ~ret.ok
    /\ ret.runId \in DOMAIN completed_runs
    /\ completed_runs[ret.runId].status = "cancelled"
    /\ prev.op = "cancel_run"
    /\ prev.ok
    /\ prev.runId = ret.runId
    /\ history # <<>>

RECURSIVE SetsInOrder(_)
\* the store.set calls that a list of timeline steps stands for, in list
\* order: for each step its "from" props when it has any, then its "to" props
SetsInOrder(steps) ==
    IF steps = <<>> THEN <<>>
    ELSE (IF DOMAIN Head(steps).from # {}
          THEN <<[layerId |-> Head(steps).layerId, props |-> Head(steps).from]>>
          ELSE <<>>)
         \o <<[layerId |-> Head(steps).layerId, props |-> Head(steps).to]>>
         \o SetsInOrder(Tail(steps))

RECURSIVE ApplySets(_, _, _)
\* the store after the given sets were issued one after the other
ApplySets(S, sets, t) ==
    IF sets = <<>> THEN S
    ELSE ApplySets(StoreSet(S, Head(sets).layerId, Head(sets).props, TRUE, t),
                   Tail(sets), t)

\* C22: a timeline run that returns leaves the store (layer states, undo
\* and redo stacks) as issuing the sets of its steps one after the other in
\* list order would leave it, whatever offsets and delays the steps declare
C22_TimelineAppliesStepsInRequestOrder ==
    [][ret'.op = "timeline" /\ ret'.ok =>
          Store' = ApplySets(Store, SetsInOrder(ret'.changes), now)]_vars

\* a timeline of three steps has returned whose declared offsets run against
\* the list order, and the rotation of the last step in the list is the one
\* stored
C22_Witness ==
    /\ ret.op = "timeline"
    /\ ret.ok
    /\ Len(ret.changes) = 3
    /\ ret.changes[1].at > ret.changes[2].at
    /\ ret.changes[2].at > ret.changes[3].at
    /\ ret.changes[2].to.rotation = R(30)
    /\ current["root"].rotation = R(-30)
    /\ current["root"].z = R(-100)

\* C23: set_layer_state on a compiled layer with numeric props, once the
\* dispatch has let it through, is never rejected for a value out of range: it returns ok, and "applied" holds the
\* same keys as the request with opacity brought into [0, 1], rotation into
\* [-maxRotation, maxRotation] and z into [minDepth, maxDepth] of the layer,
\* a value inside its range being reported as it was given
C23_OutOfRangeIsClampedNotRejected ==
    (/\ ret.op = "set_layer_state"
     /\ ret.rejected = ""
     /\ ret.layer \in LayerIds(layer_map_full)
     /\ ~NormalizeRaises(ret.props))
    => LET c == LayerFullById(layer_map_full, ret.layer).constraints
           Within(lo, v, hi) == IF RLt(v, lo) THEN lo ELSE IF RLt(hi, v) THEN hi ELSE v
       IN  /\ ret.ok
           /\ DOMAIN ret.applied = DOMAIN ret.props
           /\ "opacity" \in DOMAIN ret.props =>
                 ret.applied.opacity = Within(R(0), ret.props.opacity, R(1))
           /\ "rotation" \in DOMAIN ret.props =>
                 ret.applied.rotation =
                     Within(RNeg(c.maxRotation), ret.props.rotation, c.maxRotation)
           /\ "z" \in DOMAIN ret.props =>
                 ret.applied.z = Within(c.minDepth, ret.props.z, c.maxDepth)

\* set_layer_state with rotation 999 and opacity -2 has returned ok with
\* rotation 45 and opacity 0 applied
C23_Witness ==
    /\ ret.op = "set_layer_state"
    /\ ret.ok
    /\ ret.layer = "root"
    /\ "opacity" \in DOMAIN ret.props
    /\ ret.props.rotation = R(999)
    /\ ret.props.opacity = R(-2)
    /\ ret.applied.rotation = R(MaxRotation)
    /\ ret.applied.opacity = R(0)

\* C24: after a set_layer_state that returned ok, every property listed in
\* "applied" is stored for that layer with exactly the reported value
C24_AppliedIsStored ==
    (ret.op = "set_layer_state" /\ ret.ok)
    => \A k \in DOMAIN ret.applied :
          /\ k \in DOMAIN current[ret.layer]
          /\ current[ret.layer][k] = ret.applied[k]

\* ------------------------------------------------------------------------
\* Properties of the tool dispatch
\* ------------------------------------------------------------------------

\* the response of a fallback tool shows the fixed target x = 0, y = 0 as
\* applied, and the layer it was applied to stores it
FallbackApplied(call, state) ==
    IF call.op = "timeline"
    THEN /\ Len(call.changes) = 1
         /\ call.changes[1].to = [x |-> R(0), y |-> R(0)]
         /\ state[call.changes[1].layerId].x = R(0)
         /\ state[call.changes[1].layerId].y = R(0)
    ELSE /\ call.applied = [x |-> R(0), y |-> R(0)]
         /\ state[call.layer].x = R(0)
         /\ state[call.layer].y = R(0)

\* C25 as stated: a call through a context whose sub-calls were used up
\* succeeds in fallback mode with the target x = 0, y = 0 when the tool is
\* animate_layer, timeline or animate_layer_depth, and is answered with
\* SUBCALL_LIMIT_EXCEEDED and changes no state when it is any other tool
C25_OverBudgetFallsBackOrIsRefused ==
    [][ret'.ctx.subcalls > MAX_SUBCALLS_PER_REQUEST =>
          IF ret'.op \in {"animate_layer", "timeline", "animate_layer_depth"}
          THEN ret'.ok /\ ret'.ctx.fallback_mode /\ FallbackApplied(ret', current')
          ELSE /\ ResponseCode(ret') = "SUBCALL_LIMIT_EXCEEDED"
               /\ UNCHANGED <<storeVars, serviceVars, engineVars>>]_vars

\* C25, amended: the same for a context that is within its depth and time
\* budgets and a payload that passes validation and, for list_layers, the
\* list limit, where animate_layer and animate_layer_depth name a compiled
\* layer
C25_AcceptedCallOverBudgetFallsBackOrIsRefused ==
    [][(/\ ret'.ctx.subcalls > MAX_SUBCALLS_PER_REQUEST
        /\ BudgetError(ret'.ctx) = ""
        /\ ret'.valid
        /\ ret'.limit <= MAX_LIST_LAYERS_LIMIT
        /\ ret'.op \in {"animate_layer", "animate_layer_depth"} =>
              ret'.layer \in LayerIds(layer_map_full))
       => IF ret'.op \in {"animate_layer", "timeline", "animate_layer_depth"}
          THEN ret'.ok /\ ret'.ctx.fallback_mode /\ FallbackApplied(ret', current')
          ELSE /\ ResponseCode(ret') = "SUBCALL_LIMIT_EXCEEDED"
               /\ UNCHANGED <<storeVars, serviceVars, engineVars>>]_vars

\* animate_layer on a layer that an earlier set had moved has gone through a
\* context with its sub-calls used up and has put the layer back at x = 0
\* instead of applying the requested rotation
C25_Witness ==
    /\ ret.op = "animate_layer"
    /\ ret.ok
    /\ ret.ctx.subcalls = MAX_SUBCALLS_PER_REQUEST + 1
    /\ ret.ctx.fallback_mode
    /\ ret.layer = "grp"
    /\ "rotation" \in DOMAIN ret.props
    /\ ret.pre.current["grp"].x = R(2)
    /\ ret.applied = [x |-> R(0), y |-> R(0)]
    /\ current["grp"].x = R(0)

\* ------------------------------------------------------------------------
\* Properties of the compiler
\* ------------------------------------------------------------------------

\* C26: needs_recompile answers with the reason of the first condition that
\* holds in the order manual override, missing manifest, source checksum
\* mismatch, compiler version mismatch, and with (false, no reason) exactly
\* when none of them holds
C26_RecompilePrecedence ==
    ret.op = "needs_recompile" =>
        LET manual == ret.input.manual_recompile
            manifest == ret.input.previous_manifest
            missing == DOMAIN manifest = {}
            source_differs ==
                \/ "sourceChecksum" \notin DOMAIN manifest
                \/ manifest.sourceChecksum # SourceChecksum(ret.input.svg_text)
            version_differs ==
                \/ "compilerVersion" \notin DOMAIN manifest
                \/ manifest.compilerVersion # ret.input.compiler_version
        IN  /\ manual => ret.output = [required |-> TRUE, reason |-> "manual_recompile"]
            /\ (~manual /\ missing)
                 => ret.output = [required |-> TRUE, reason |-> "missing_manifest"]
            /\ (~manual /\ ~missing /\ source_differs)
                 => ret.output = [required |-> TRUE, reason |-> "source_checksum_changed"]
            /\ (~manual /\ ~missing /\ ~source_differs /\ version_differs)
                 => ret.output = [required |-> TRUE, reason |-> "compiler_version_changed"]
            /\ (~manual /\ ~missing /\ ~source_differs /\ ~version_differs)
                 <=> ret.output = [required |-> FALSE, reason |-> NoReason]

\* needs_recompile was asked about a text and a version that both differ from
\* the ones of the manifest, and has named the checksum
C26_Witness ==
    /\ ret.op = "needs_recompile"
    /\ ~ret.input.manual_recompile
    /\ DOMAIN ret.input.previous_manifest # {}
    /\ "sourceChecksum" \in DOMAIN ret.input.previous_manifest
    /\ "compilerVersion" \in DOMAIN ret.input.previous_manifest
    /\ ret.input.previous_manifest.sourceChecksum # SourceChecksum(ret.input.svg_text)
    /\ ret.input.previous_manifest.compilerVersion # ret.input.compiler_version
    /\ ret.output = [required |-> TRUE, reason |-> "source_checksum_changed"]

\* the layer rows of the full projection of a compile result
FullLayers(call) == call.output.layer_map_full.layers

\* the layer rows of the minimal projection of a compile result
MinLayersOf(call) == call.output.layer_map_min.layers

\* two calls compiled the same source text with the same compiler version
SameCompilation(first, second) ==
    /\ first.op = "compile"
    /\ second.op = "compile"
    /\ first.ok
    /\ second.ok
    /\ first.input = second.input

\* C27: in a compiled document every layer has a smaller zIndex than each of
\* its children, and both projections list the layers in the order of their
\* zIndex
C27_ParentBeforeChildren ==
    (ret.op = "compile" /\ ret.ok)
    => /\ \A i, j \in 1..Len(FullLayers(ret)) :
             FullLayers(ret)[j].metadata.parent = FullLayers(ret)[i].id
             => FullLayers(ret)[i].zIndex < FullLayers(ret)[j].zIndex
       /\ \A i \in 1..(Len(FullLayers(ret)) - 1) :
             FullLayers(ret)[i].zIndex < FullLayers(ret)[i + 1].zIndex
       /\ Len(MinLayersOf(ret)) = Len(FullLayers(ret))
       /\ \A i \in 1..Len(FullLayers(ret)) :
             /\ MinLayersOf(ret)[i].id = FullLayers(ret)[i].id
             /\ MinLayersOf(ret)[i].zIndex = FullLayers(ret)[i].zIndex

\* C28: no two layer records of a compiled document carry the same id
C28_LayerIdsUnique ==
    (ret.op = "compile" /\ ret.ok)
    => \A i, j \in 1..Len(FullLayers(ret)) :
          i # j => FullLayers(ret)[i].id # FullLayers(ret)[j].id

\* C29: two compilations of the same source text by the same compiler
\* version list the same layer ids in the same order, with the same
\* fingerprint for each layer, in both projections
C29_SameSourceSameIdsAndFingerprints ==
    SameCompilation(prev, ret)
    => /\ Len(FullLayers(prev)) = Len(FullLayers(ret))
       /\ Len(MinLayersOf(prev)) = Len(MinLayersOf(ret))
       /\ \A i \in 1..Len(FullLayers(ret)) :
             /\ FullLayers(prev)[i].id = FullLayers(ret)[i].id
             /\ FullLayers(prev)[i].fingerprint = FullLayers(ret)[i].fingerprint
             /\ MinLayersOf(prev)[i].id = MinLayersOf(ret)[i].id
             /\ MinLayersOf(prev)[i].fingerprint = MinLayersOf(ret)[i].fingerprint

\* the sample source, which has layers with and without an id of their own,
\* was compiled twice by the same version at two different times
C29_Witness ==
    /\ SameCompilation(prev, ret)
    /\ ret.input.svg_text = "sample"
    /\ prev.output.compile_manifest.generatedAt # ret.output.compile_manifest.generatedAt
    /\ Len(FullLayers(ret)) = 6
    /\ \E i, j \in 1..Len(FullLayers(ret)) :
          /\ FullLayers(ret)[i].id[1] = "id"
          /\ FullLayers(ret)[j].id[1] = "layer"

\* C30: two compilations of the same source text by the same compiler
\* version, whenever they run, put the same source checksum, the same
\* checksum of the minimal document and the same checksum of the full
\* document into the manifest
C30_SameSourceSameChecksums ==
    SameCompilation(prev, ret)
    => /\ prev.output.compile_manifest.sourceChecksum
             = ret.output.compile_manifest.sourceChecksum
       /\ prev.output.compile_manifest.layerMapMinChecksum
             = ret.output.compile_manifest.layerMapMinChecksum
       /\ prev.output.compile_manifest.layerMapFullChecksum
             = ret.output.compile_manifest.layerMapFullChecksum

\* ------------------------------------------------------------------------
\* Properties of the runs, continued
\* ------------------------------------------------------------------------

\* the store.set calls of a run_animate: the "from" props when there are
\* any, then the "to" props, on the same layer
AnimateSets(call) ==
    SetsInOrder(<<[layerId |-> call.layer, from |-> call.input.from,
                   to |-> call.applied]>>)

\* C31: an animate_layer run that returns leaves the store as a propagating
\* set of the from-props (when there are any) followed by a propagating set
\* of the to-props leaves it, whatever duration, ease and delay are; every
\* property named in the to-props is then stored with its to value, and
\* plannedEndState is the stored state of the layer
C31_AnimateReachesToProps ==
    [][ret'.op = "animate_layer" /\ ret'.ok =>
          /\ Store' = ApplySets(Store, AnimateSets(ret'), now)
          /\ \A k \in DOMAIN ret'.applied :
                /\ k \in DOMAIN current'[ret'.layer]
                /\ current'[ret'.layer][k] = ret'.applied[k]
          /\ ret'.output = current'[ret'.layer]]_vars

\* C31, amended: as C31, for the properties of the to-props that the store
\* tracks, each stored with its to value as the store normalizes it
C31_AnimateReachesTrackedToProps ==
    [][ret'.op = "animate_layer" /\ ret'.ok =>
          /\ Store' = ApplySets(Store, AnimateSets(ret'), now)
          /\ \A k \in DOMAIN ret'.applied \cap TRACKED_FIELDS :
                current'[ret'.layer][k] = NormalizeProps(ret'.applied, now)[k]
          /\ ret'.output = current'[ret'.layer]]_vars

\* an animation of the group from rotation -30 to rotation 30 has returned:
\* two snapshots were pushed and the child turned with the group both times
C31_Witness ==
    /\ ret.op = "animate_layer"
    /\ ret.ok
    /\ ret.layer = "grp"
    /\ ret.input.from = [rotation |-> R(-30)]
    /\ ret.applied = [rotation |-> R(30)]
    /\ Len(history) = Len(ret.pre.history) + 2
    /\ current["grp"].rotation = R(30)
    /\ current["leaf"].rotation = RAdd(ret.pre.current["leaf"].rotation,
                                        RSub(R(30), ret.pre.current["grp"].rotation))
    /\ ret.output = current["grp"]

\* ------------------------------------------------------------------------
\* Properties of the state store, continued
\* ------------------------------------------------------------------------

\* the layers a set may change: the target, and its descendants when the set
\* propagates
MayChange(call) ==
    {call.layer} \cup (IF call.propagate
                       THEN Descendants(call.pre.layer_tree, call.layer)
                       ELSE {})

\* C32: a set leaves the state of every layer that is neither its target nor
\* a descendant of its target as it was, creates no entry but the target's,
\* and without propagation, or on a target without children, changes the
\* target only
C32_SetLeavesOtherLayers ==
    ret.op = "set"
    => /\ DOMAIN current \subseteq DOMAIN ret.pre.current \cup {ret.layer}
       /\ \A id \in DOMAIN current \ MayChange(ret) :
             current[id] = ret.pre.current[id]
       /\ \A id \in DOMAIN ret.pre.layer_tree : layer_tree[id] = ret.pre.layer_tree[id]

\* a set without propagation has turned the group, which has a child, and
\* the child and the root are as they were
C32_Witness ==
    /\ ret.op = "set"
    /\ ret.layer = "grp"
    /\ ~ret.propagate
    /\ "grp" \in DOMAIN ret.pre.layer_tree
    /\ ret.pre.layer_tree["grp"] = <<"leaf">>
    /\ ret.pre.current["grp"].rotation = R(0)
    /\ current["grp"].rotation = R(40)
    /\ current["leaf"] = ret.pre.current["leaf"]
    /\ current["root"] = ret.pre.current["root"]

RECURSIVE PropagationVisits(_, _)
RECURSIVE VisitsOfChildren(_, _)

\* the child ids that the recursion of _propagate_group_delta writes when it
\* is entered for layer_id, one entry for each pass of its child loop, in the
\* order of the passes
PropagationVisits(tree, layer_id) ==
    VisitsOfChildren(tree, IF layer_id \in DOMAIN tree THEN tree[layer_id] ELSE <<>>)

\* the passes of the loop "for child_id in children" and of the calls below
VisitsOfChildren(tree, children) ==
    IF children = <<>> THEN <<>>
    ELSE <<Head(children)>> \o PropagationVisits(tree, Head(children))
         \o VisitsOfChildren(tree, Tail(children))

\* C33: on a store built from a compiled layer map, a propagating set
\* returns, and the recursion below its target has written each descendant
\* of the target exactly once
C33_EachDescendantWrittenOnce ==
    (ret.op = "set" /\ ret.propagate)
    => \A d \in Descendants(ret.pre.layer_tree, ret.layer) :
          Cardinality({i \in 1..Len(PropagationVisits(ret.pre.layer_tree, ret.layer)) :
                          PropagationVisits(ret.pre.layer_tree, ret.layer)[i] = d}) = 1

\* ------------------------------------------------------------------------
\* Properties of the tool dispatch, continued
\* ------------------------------------------------------------------------

\* the tools that write layer state
MUTATING_TOOLS ==
    {"set_layer_state", "set_origin", "animate_layer", "timeline", "set_layer_depth",
     "animate_layer_depth", "set_effect_layer", "set_jitter"}

\* C34: a dispatched call of a mutating tool that is answered with ok = false
\* has left the state map, the undo stack, the redo stack and the run records
\* of the engine as they were
C34_FailedCallChangesNothing ==
    [][(ret'.op \in MUTATING_TOOLS /\ ~ret'.ok)
          => UNCHANGED <<current, history, future, counter, active_runs,
                         completed_runs>>]_vars

\* ------------------------------------------------------------------------
\* Properties of the runtime service, continued
\* ------------------------------------------------------------------------

\* C35: a timeline call without fallback in which some step names a layer
\* that is not compiled fails before any step is applied: the store with its
\* undo and redo stacks, the run records, the state version and the external
\* copy are as they were, also when steps before the failing one are valid
C35_TimelineChecksBeforeItWrites ==
    [][(/\ ret'.op = "timeline"
        /\ \E i \in 1..Len(ret'.changes) :
              ret'.changes[i].layerId \notin LayerIds(layer_map_full))
          => /\ ~ret'.ok
             /\ UNCHANGED <<storeVars, engineVars, serviceVars>>]_vars

\* a timeline whose first step is valid and whose second step names an
\* unknown layer has failed on a store that earlier calls had written, and
\* the x of the first step is not stored
C35_Witness ==
    /\ ret.op = "timeline"
    /\ ~ret.ok
    /\ Len(ret.changes) = 2
    /\ ret.changes[1].layerId \in LayerIds(layer_map_full)
    /\ ret.changes[1].to = [x |-> R(4)]
    /\ ret.changes[2].layerId \notin LayerIds(layer_map_full)
    /\ history # <<>>
    /\ Store = ret.pre
    /\ current["root"].x # R(4)

\* C36: a get_layer_state that returns holds, for every requested layer the
\* store knows, the state the store holds at that moment, whether the
\* document was built for the call or taken from the cache, and holds every
\* layer of the store when no layer was named
C36_CachedStateIsCurrent ==
    ret.op = "service_get_layer_state"
    => /\ \A i \in 1..Len(ret.input.layerIds) :
             ret.input.layerIds[i] \in DOMAIN current
             => /\ ret.input.layerIds[i] \in DOMAIN ret.output.layers
                /\ ret.output.layers[ret.input.layerIds[i]]
                      = current[ret.input.layerIds[i]]
       /\ ret.input.layerIds = <<>> => ret.output.layers = current


\* whether a compile_svg call was forced or found the source or the compiler
\* version changed against the manifest the service held before it
MustRecompile(call, manifest) ==
    \/ call.input.force
    \/ manifest.sourceChecksum # SourceChecksum(call.input.svg_text)
    \/ manifest.compilerVersion # call.input.compiler_version

\* C37: a compile_svg call that returns after a forced compilation or after a
\* change of the source or of the compiler version leaves every layer of the
\* new layer map at its default state, both stacks empty, state_version 0, no
\* run in the engine and the run counter at 0, so that the next run is
\* run_000001; a call that returns with the source and the compiler version
\* unchanged and without force changes neither the state map, the stacks,
\* state_version nor the engine
C37_RecompileResetsRuntime ==
    [][ret'.op = "compile_svg" /\ ret'.ok =>
           IF MustRecompile(ret', compile_manifest)
           THEN /\ DOMAIN current' = LayerIds(layer_map_full')
                /\ \A i \in 1..Len(layer_map_full') :
                       current'[layer_map_full'[i].id] =
                           DefaultLayerState(layer_map_full'[i].defaultOrigin, now)
                /\ history' = <<>>
                /\ future' = <<>>
                /\ state_version' = 0
                /\ active_runs' = <<>>
                /\ completed_runs' = <<>>
                /\ counter' = 0
           ELSE UNCHANGED <<current, history, future, state_version, counter,
                            active_runs, completed_runs>>]_vars

\* a compilation has replaced a runtime that had a write on its undo stack
\* and a run in its log
C37_Witness ==
    /\ ret.op = "compile_svg"
    /\ ret.ok
    /\ ret.output.compiled
    /\ ret.pre.history # <<>>
    /\ prev.op = "set_layer_state"
    /\ prev.runId = 1
    /\ counter = 0
    /\ completed_runs = <<>>


\* ------------------------------------------------------------------------
\* Properties of the reconciliation, continued
\* ------------------------------------------------------------------------

\* C38: a live reconcile that follows at once a live reconcile with the same
\* preference, on the snapshot of the first call with the returned patch
\* applied, reports no changed layer and returns an empty patch
C38_SecondReconcileFindsNothing ==
    ret.op = "reconcile_again" =>
        /\ ret.changed_layer_ids = {}
        /\ ret.dom_patch = <<>>


\* the items of all pages of the paging that the last call belongs to
Returned == ret.input.before \o ret.output.items

\* C39: a paging through list_layers with one filter and one limit of at
\* least 1, from a call without a cursor along the cursors returned, takes
\* no more pages than there are matching layers (one page when there is
\* none), and when a page comes without a cursor the pages together hold
\* every matching layer of the min map at exactly one position and only such
\* layers, with strictly ascending zIndex
C39_PagingReturnsEachLayerOnce ==
    ret.op = "service_list_layers" =>
        /\ \/ ret.input.page = 1
           \/ (ret.input.page - 1) * ret.limit
                  < Cardinality({i \in 1..Len(ServiceLayerMapMin.layers) :
                                    Match(ret.input.filter, ServiceLayerMapMin.layers[i])})
        /\ ret.output.nextCursor = None =>
              /\ \A i \in 1..Len(ServiceLayerMapMin.layers) :
                     Match(ret.input.filter, ServiceLayerMapMin.layers[i]) =>
                         Cardinality({k \in 1..Len(Returned) :
                                         Returned[k] = ServiceLayerMapMin.layers[i]}) = 1
              /\ \A k \in 1..Len(Returned) :
                     \E i \in 1..Len(ServiceLayerMapMin.layers) :
                         /\ Returned[k] = ServiceLayerMapMin.layers[i]
                         /\ Match(ret.input.filter, Returned[k])
              /\ \A k \in 1..Len(Returned), l \in 1..Len(Returned) :
                     k < l => Returned[k].zIndex < Returned[l].zIndex

\* a paging of two pages has ended: the limit is 2, the first page held two
\* layers and the cursor "2", the second page holds the third layer
C39_Witness ==
    /\ ret.op = "service_list_layers"
    /\ ret.limit = 2
    /\ ret.input.page = 2
    /\ ret.input.cursor = <<"2">>
    /\ Len(ret.input.before) = 2
    /\ Len(ret.output.items) = 1
    /\ ret.output.nextCursor = None

====
